---- MODULE Spec2Model ----
(***************************************************************************)
(* Model of the make-it-public tunnelling server: the core service         *)
(* (pkg/core: HandleReverseConn, HandleHTTPConnection, HandleTCPConnection,*)
(* handleV2Stream, the pipes), the connection manager it drives through    *)
(* the ConnManager interface, and the auth repository (pkg/repo/auth).     *)
(***************************************************************************)
EXTENDS Integers, Sequences, FiniteSets, TLC

\* ---------------------------------------------------------------- bounds
MaxConns == 2      \* accepted reverse connections
MaxReqs == 2       \* end-user requests (edge handler calls)
MaxStreams == 2    \* yamux streams accepted over V2 control connections
MaxCalls == 1      \* of these requests, those that Spec lets call RequestConnection
MaxAccepts == 1    \* of these streams, those that Spec lets acceptV2Streams accept
MaxBytes == 1      \* response bytes one copy may report

Conns == 1..MaxConns
Handlers == 1..MaxReqs
Streams == 1..MaxStreams

KeyIDs == {"a", "b"}
Kinds == {"web", "tcp"}
\* the tokens clients may authenticate with: (base ID, type)
Tokens == {<<"a", "web">>, <<"b", "tcp">>}

\* a request's UUID is the index of the handler call that created it; NoReq
\* is a UUID no request carries
NoReq == 0
NoStream == <<>>
StreamIDs == ({"c"} \X Conns) \cup ({"s"} \X Streams)

VARIABLES
    tcpAllocator,  \* Service.tcpEndpointAllocator: "noop" or "pool"
    conn,          \* per accepted reverse connection: HandleReverseConn's state
    tunnels,       \* manager state: kind -> keyID -> sequence of control connections
    req,           \* manager state: request UUID -> request handle
    hnd,           \* per end-user request: HandleHTTP/TCPConnection's state
    strm,          \* per V2 stream: handleV2Stream's state
    notifier,      \* per reverse stream: CloseNotifier state
    db,            \* auth repository: the Redis store, store key -> value or Nil
    stored,        \* <<ID, secret>> of the tokens saved and not removed since
    savedType,     \* token ID -> Type of the token saved under it and not removed since
    last,          \* auth repository: the last call and what it returned
    mw,            \* key-ID middleware: its domain and the last request it served
    cli,           \* client: per reverse stream, ClientServer.handleConn's state
    run,           \* client: ClientServer.Run's state
    connectionTimeout  \* the handshake timeout HandleReverseConn passes on

coreVars == <<tcpAllocator, conn, tunnels, req, hnd, strm, notifier>>
authVars == <<db, stored, savedType, last>>

edgeVars == <<mw, cli, run, connectionTimeout>>

vars == <<coreVars, authVars, edgeVars>>

\* ------------------------------------------------------------ initial state
InitConn ==
    [pc |-> "idle", key |-> "", ttype |-> "", v2 |-> FALSE, timer |-> "off",
     ctxDone |-> FALSE, bind |-> NoReq, evt |-> FALSE,
     deferRelease |-> FALSE, deferRemove |-> FALSE,
     allocs |-> 0, releases |-> 0, adds |-> 0, removes |-> 0, resolves |-> 0,
     ret |-> "none"]

InitReq ==
    [state |-> "none", mng |-> "", key |-> "", parent |-> 0, stream |-> NoStream,
     resolveCalls |-> 0, cancelCalls |-> 0, ord |-> 0, sig |-> 0]

InitHnd ==
    [pc |-> "idle", kind |-> "", key |-> "", ctxDone |-> FALSE, rc |-> "none",
     exists |-> "na", waits |-> 0, stream |-> NoStream, meta |-> "none",
     initial |-> "none", dst |-> "none", src |-> "none", written |-> 0,
     egErr |-> "none", guard |-> "none", result |-> "none",
     userEOF |-> FALSE, cliEOF |-> FALSE, sent |-> 0, copied |-> 0,
     fin |-> "none", userFin |-> FALSE, srcEnd |-> "none", guardBy |-> "none"]

InitStrm ==
    [pc |-> "idle", owner |-> 0, uuid |-> NoReq, fail |-> "none", wrote |-> FALSE,
     resolves |-> 0, resolvedID |-> NoReq]

CoreInit ==
    /\ tcpAllocator = "pool"
    /\ conn = [c \in Conns |-> InitConn]
    /\ tunnels = [m \in Kinds |-> [k \in KeyIDs |-> <<>>]]
    /\ req = [r \in Handlers |-> InitReq]
    /\ hnd = [h \in Handlers |-> InitHnd]
    /\ strm = [s \in Streams |-> InitStrm]
    /\ notifier = [n \in StreamIDs |-> [closes |-> 0, panic |-> FALSE]]

\* ------------------------------------------------------------------ helpers
Range(s) == {s[i] : i \in 1..Len(s)}

RECURSIVE Without(_, _)
Without(s, x) ==
    IF s = <<>> THEN <<>>
    ELSE IF Head(s) = x THEN Without(Tail(s), x)
    ELSE <<Head(s)>> \o Without(Tail(s), x)

Min(a, b) == IF a < b THEN a ELSE b

\* CloseNotifier.Close on a notifier in state nf: c.Conn.Close(), then the
\* deferred close(c.done), which panics when the channel is closed already
Close(nf) ==
    [closes |-> Min(nf.closes + 1, 2), panic |-> nf.panic \/ nf.closes > 0]

\* request UUIDs a client may have been told of
Issued == {r \in Handlers : req[r].state # "none"}
BindIDs == {NoReq} \cup Issued

\* HandleReverseConn/handleV2Stream: the manager a session's token type selects
ManagerOf(ttype) == IF ttype = "tcp" THEN "tcp" ELSE "web"

\* --------------------------------------------------- connection manager
\* The manager's implementation (pkg/repo/connmng) is driven through the
\* ConnManager interface; its operations follow the documented contract.

\* ConnManager.AddConnection: insert into the tunnel set of keyID
AddConnection(m, k, c) == [tunnels EXCEPT ![m][k] = Append(@, c)]

\* ConnManager.RemoveConnection: the tunnel set after removing c
RemoveConnection(m, k, c) == [tunnels EXCEPT ![m][k] = Without(@, c)]

\* variant: removing the last control connection leaves the requests pending
FailPending_None(m, k, c) == req

\* ConnManager.RemoveConnection: when the last entry for keyID disappears,
\* every still-pending request of that key fails with KeyIDNotFound
FailPending(m, k, c) ==
    IF Without(tunnels[m][k], c) = <<>>
    THEN [r \in Handlers |->
            IF req[r].state = "pending" /\ req[r].mng = m /\ req[r].key = k
            THEN [req[r] EXCEPT !.state = "failed", !.key = "", !.parent = 0]
            ELSE req[r]]
    ELSE req

\* ConnManager.RequestConnection registers the new request in pending: its
\* place in the order of creation
CreateOrder == Cardinality({r \in Handlers : req[r].ord # 0}) + 1

\* variant: the newest request is signalled ahead of the earlier ones
SignalOrder_Lifo == 0 - (Cardinality({r \in Handlers : req[r].sig # 0}) + 1)

\* ConnManager.RequestConnection signals the control connection to open a
\* stream for the new request: its place in the order of the signals
SignalOrder == Cardinality({r \in Handlers : req[r].sig # 0}) + 1

\* ConnManager.ResolveRequest finds a request only while it is pending
CanResolve(m, id) ==
    /\ id \in Handlers
    /\ req[id].state = "pending"
    /\ req[id].mng = m

\* ConnManager.ResolveRequest: hand the stream to the waiter of a pending request
ResolveRequest(m, id, n) ==
    [r \in Handlers |->
        IF r = id /\ req[r].mng = m
        THEN [req[r] EXCEPT !.resolveCalls = @ + 1,
                            !.state = IF CanResolve(m, id) THEN "resolved" ELSE @,
                            !.stream = IF CanResolve(m, id) THEN n ELSE @]
        ELSE req[r]]

\* variant: a stream for a request that is gone is dropped without Close
ResolveCloses_Leak(m, id, n) == notifier

\* ConnManager.ResolveRequest: a stream for a request that is gone is closed
ResolveCloses(m, id, n) ==
    IF CanResolve(m, id) THEN notifier
    ELSE [notifier EXCEPT ![n] = Close(@)]

\* ConnManager.CancelRequest: Pending -> Cancelled, otherwise nothing
CancelRequest(m, id) ==
    [req EXCEPT ![id] =
        IF @.state = "pending"
        THEN [@ EXCEPT !.cancelCalls = @ + 1, !.state = "cancelled",
                       !.key = "", !.parent = 0]
        ELSE [@ EXCEPT !.cancelCalls = @ + 1]]

\* ------------------------------------------------------ HandleReverseConn
\* timeoutContext(ctx, timeout): with a non-positive timeout the parent
\* context is returned and there is no timer ("off"); else a goroutine waits
\* for the parent's end, the timer or the cancel function
timeoutContext(timeout) == IF timeout <= 0 THEN "off" ELSE "armed"

StopTimer_Never(t) == t

\* the cancel function timeoutContext returned: close(done), wg.Wait(). The
\* goroutine is gone when it returns; the context is left as it is
StopTimer(t) == IF t = "armed" THEN "stopped" ELSE t

\* variant: Release deferred only once the connection is registered
ReleaseOnExit_AfterAdd(c) == conn[c].deferRelease /\ conn[c].deferRemove

\* variant: RemoveConnection is not deferred
RemoveOnExit_Never(c) == FALSE

\* the calls deferred in the Registered branch, run when the handler returns
ReleaseOnExit(c) == conn[c].deferRelease
RemoveOnExit(c) == conn[c].deferRemove

\* HandleReverseConn returns: the deferred calls run and the handler's locals
\* are gone; what stays is the record of the calls it made
Return(c, ret) ==
    /\ conn' = [conn EXCEPT ![c] =
                    [InitConn EXCEPT
                        !.pc = "closed", !.ret = ret,
                        !.timer = StopTimer(conn[c].timer),
                        !.ctxDone = conn[c].ctxDone,
                        !.evt = conn[c].evt,
                        !.allocs = conn[c].allocs,
                        !.adds = conn[c].adds,
                        !.resolves = conn[c].resolves,
                        !.removes = conn[c].removes + (IF RemoveOnExit(c) THEN 1 ELSE 0),
                        !.releases = conn[c].releases + (IF ReleaseOnExit(c) THEN 1 ELSE 0)]]
    /\ IF RemoveOnExit(c)
       THEN /\ tunnels' = RemoveConnection(ManagerOf(conn[c].ttype), conn[c].key, c)
            /\ req' = FailPending(ManagerOf(conn[c].ttype), conn[c].key, c)
       ELSE UNCHANGED <<tunnels, req>>

\* a reverse connection is accepted: the handshake timer is armed and
\* Process() starts waiting for the client
Accept(c) ==
    /\ conn[c].pc = "idle"
    /\ c > 1 => conn[c - 1].pc # "idle"
    /\ conn' = [conn EXCEPT ![c].pc = "auth",
                             ![c].timer = timeoutContext(connectionTimeout)]
    /\ UNCHANGED <<tcpAllocator, tunnels, req, hnd, strm, notifier, authVars, edgeVars>>

\* timeoutContext: the timer fires while the goroutine waits for it, which
\* is until the cancel function is called, and cancels the handler's context
TimerFire(c) ==
    /\ conn[c].timer = "armed"
    /\ conn' = [conn EXCEPT ![c].timer = "fired", ![c].ctxDone = TRUE]
    /\ UNCHANGED <<tcpAllocator, tunnels, req, hnd, strm, notifier, authVars, edgeVars>>

\* what auth.Verify(ctx, keyID, secret) may answer; with ctx cancelled the
\* store call fails
VerifyOutcomes(c) ==
    IF conn[c].ctxDone
    THEN {[res |-> "err", tok |-> <<"", "">>]}
    ELSE {[res |-> "ok", tok |-> t] : t \in Tokens}
         \cup {[res |-> r, tok |-> <<"", "">>] : r \in {"invalid", "err"}}

\* variant: the session goes on whatever Verify answered
Authenticate_Lenient(c) ==
    /\ conn[c].pc = "auth"
    /\ \E out \in VerifyOutcomes(c) :
         /\ conn' = [conn EXCEPT ![c].pc = "role", ![c].key = out.tok[1],
                                 ![c].ttype = out.tok[2]]
         /\ UNCHANGED <<tunnels, req>>
    /\ UNCHANGED <<tcpAllocator, hnd, strm, notifier, authVars, edgeVars>>

\* the WithUserPassAuth callback: the client sent Auth
Authenticate(c) ==
    /\ conn[c].pc = "auth"
    /\ \E out \in VerifyOutcomes(c) :
         IF out.res = "ok"
         THEN /\ conn' = [conn EXCEPT ![c].pc = "role", ![c].key = out.tok[1],
                                      ![c].ttype = out.tok[2]]
              /\ UNCHANGED <<tunnels, req>>
         ELSE Return(c, "nil")
    /\ UNCHANGED <<tcpAllocator, hnd, strm, notifier, authVars, edgeVars>>

\* Process() fails: the client went away or broke the protocol
ProcessFail(c) ==
    /\ conn[c].pc \in {"auth", "role"}
    /\ Return(c, "nil")
    /\ UNCHANGED <<tcpAllocator, hnd, strm, notifier, authVars, edgeVars>>

\* Process() returns nil: the client declared its role; cancelTimeout()
ProcessRegister(c) ==
    /\ conn[c].pc = "role"
    /\ \E v2 \in BOOLEAN :
         conn' = [conn EXCEPT ![c].pc = "alloc", ![c].v2 = v2,
                              ![c].timer = StopTimer(@)]
    /\ UNCHANGED <<tcpAllocator, tunnels, req, hnd, strm, notifier, authVars, edgeVars>>

ProcessBind(c) ==
    /\ conn[c].pc = "role"
    /\ \E id \in BindIDs :
         conn' = [conn EXCEPT ![c].pc = "bound", ![c].bind = id,
                              ![c].timer = StopTimer(@)]
    /\ UNCHANGED <<tcpAllocator, tunnels, req, hnd, strm, notifier, authVars, edgeVars>>

\* Process() returns nil in a state that is neither Registered nor Bound
ProcessOther(c) ==
    /\ conn[c].pc = "role"
    /\ Return(c, "errState")
    /\ UNCHANGED <<tcpAllocator, hnd, strm, notifier, authVars, edgeVars>>

\* variant: AddConnection before the urlToConnectUpdated event
NextRegisteredPc_AddFirst(pc) ==
    CASE pc = "alloc" -> "add"
      [] pc = "add" -> "event"
      [] pc = "event" -> "ping"

\* the statement order of the Registered branch
NextRegisteredPc(pc) ==
    CASE pc = "alloc" -> "event"
      [] pc = "event" -> "add"
      [] pc = "add" -> "ping"

\* TCPEndpointAllocator.Allocate / endpointGenerator
EndpointOutcomes(c) ==
    IF conn[c].ttype = "tcp" /\ tcpAllocator = "noop" THEN {"fail"}
    ELSE {"ok", "fail"}

\* variant: a failed Allocate is only logged and the handler goes on
EndpointFailure_Ignored(c) ==
    /\ conn' = [conn EXCEPT ![c].pc = NextRegisteredPc("alloc")]
    /\ UNCHANGED <<tunnels, req>>

\* Allocate or the endpoint generator failed: the handler returns the error
EndpointFailure(c) ==
    Return(c, IF conn[c].ttype = "tcp" THEN "errAllocate" ELSE "err")

Endpoint(c) ==
    /\ conn[c].pc = "alloc"
    /\ \E out \in EndpointOutcomes(c) :
         IF out = "ok"
         THEN /\ conn' = [conn EXCEPT
                    ![c].pc = NextRegisteredPc("alloc"),
                    ![c].allocs = @ + (IF conn[c].ttype = "tcp" THEN 1 ELSE 0),
                    ![c].deferRelease = (conn[c].ttype = "tcp")]
              /\ UNCHANGED <<tunnels, req>>
         ELSE EndpointFailure(c)
    /\ UNCHANGED <<tcpAllocator, hnd, strm, notifier, authVars, edgeVars>>

\* srvConn.SendURLToConnectUpdatedEvent(endpoint)
SendEvent(c) ==
    /\ conn[c].pc = "event"
    /\ \E ok \in BOOLEAN :
         IF ok
         THEN /\ conn' = [conn EXCEPT ![c].pc = NextRegisteredPc("event"),
                                      ![c].evt = TRUE]
              /\ UNCHANGED <<tunnels, req>>
         ELSE Return(c, "err")
    /\ UNCHANGED <<tcpAllocator, hnd, strm, notifier, authVars, edgeVars>>

\* connMng.AddConnection(connKeyID, srvConn); defer RemoveConnection
Register(c) ==
    /\ conn[c].pc = "add"
    /\ conn' = [conn EXCEPT ![c].pc = NextRegisteredPc("add"),
                            ![c].adds = @ + 1, ![c].deferRemove = TRUE]
    /\ tunnels' = AddConnection(ManagerOf(conn[c].ttype), conn[c].key, c)
    /\ UNCHANGED <<tcpAllocator, req, hnd, strm, notifier, authVars, edgeVars>>

\* the control connection's context ends (transport closed, server shutdown)
CtxCancel(c) ==
    /\ conn[c].pc \in {"ping", "waitclose"}
    /\ ~conn[c].ctxDone
    /\ conn' = [conn EXCEPT ![c].ctxDone = TRUE]
    /\ UNCHANGED <<tcpAllocator, tunnels, req, hnd, strm, notifier, authVars, edgeVars>>

\* keepalive loop: the context is done
PingCtxDone(c) ==
    /\ conn[c].pc = "ping"
    /\ conn[c].ctxDone
    /\ Return(c, "nil")
    /\ UNCHANGED <<tcpAllocator, hnd, strm, notifier, authVars, edgeVars>>

\* keepalive loop: srvConn.Ping() fails
PingFail(c) ==
    /\ conn[c].pc = "ping"
    /\ Return(c, "nil")
    /\ UNCHANGED <<tcpAllocator, hnd, strm, notifier, authVars, edgeVars>>

\* Bound branch: NewCloseNotifier, then connMng.ResolveRequest(servConn.ID(), notifier)
Bound(c) ==
    /\ conn[c].pc = "bound"
    /\ \E ok \in BOOLEAN :
         IF ok
         THEN /\ conn' = [conn EXCEPT ![c].pc = "waitclose", ![c].resolves = @ + 1]
              /\ req' = ResolveRequest(ManagerOf(conn[c].ttype), conn[c].bind, <<"c", c>>)
              /\ notifier' = ResolveCloses(ManagerOf(conn[c].ttype), conn[c].bind, <<"c", c>>)
              /\ UNCHANGED tunnels
         ELSE /\ Return(c, "err")
              /\ UNCHANGED notifier
    /\ UNCHANGED <<tcpAllocator, hnd, strm, authVars, edgeVars>>

\* variant: WaitClose does not wait
WaitCloseReturns_AtOnce(n, ctxDone) == TRUE

\* CloseNotifier.WaitClose(ctx): the select on c.done and ctx.Done()
WaitCloseReturns(n, ctxDone) == notifier[n].closes > 0 \/ ctxDone

\* notifier.WaitClose(ctx) returns
WaitClose(c) ==
    /\ conn[c].pc = "waitclose"
    /\ WaitCloseReturns(<<"c", c>>, conn[c].ctxDone)
    /\ Return(c, "nil")
    /\ UNCHANGED <<tcpAllocator, hnd, strm, notifier, authVars, edgeVars>>

ConnNext ==
    \E c \in Conns :
        \/ Accept(c)
        \/ TimerFire(c)
        \/ Authenticate(c)
        \/ ProcessFail(c)
        \/ ProcessRegister(c)
        \/ ProcessBind(c)
        \/ ProcessOther(c)
        \/ Endpoint(c)
        \/ SendEvent(c)
        \/ Register(c)
        \/ CtxCancel(c)
        \/ PingCtxDone(c)
        \/ PingFail(c)
        \/ Bound(c)
        \/ WaitClose(c)

\* ------------------------------------- HandleHTTPConnection / HandleTCPConnection
\* variant: both edge handlers use webConnMng
EdgeManager_WebOnly(kind) == "web"

\* HandleHTTPConnection uses webConnMng, HandleTCPConnection tcpConnMng
EdgeManager(kind) == IF kind = "http" THEN "web" ELSE "tcp"

\* variant: the two answers of IsKeyExists exchanged
KeyNotFoundResult_Swapped(exists) ==
    CASE exists = "err" -> "StoreFault"
      [] exists = "no" -> "FailedToConnect"
      [] exists = "yes" -> "KeyIDNotFound"

\* the switch on RequestConnection's KeyIDNotFound: auth.IsKeyExists decides
KeyNotFoundResult(exists) ==
    CASE exists = "err" -> "StoreFault"
      [] exists = "no" -> "KeyIDNotFound"
      [] exists = "yes" -> "FailedToConnect"

\* an edge handler returns: its locals are gone; what stays is the record of
\* what it was asked, what it called and what it returned
Done(r, result) ==
    [InitHnd EXCEPT !.pc = "done", !.kind = r.kind, !.rc = r.rc, !.exists = r.exists,
                    !.waits = r.waits, !.meta = r.meta, !.initial = r.initial,
                    !.written = r.written, !.egErr = r.egErr, !.result = result,
                    !.dst = r.dst, !.srcEnd = r.srcEnd, !.sent = r.sent,
                    !.fin = r.fin, !.userFin = r.userFin, !.guardBy = r.guardBy]

\* RequestConnection finds no control connection for keyID
RequestNoTunnel(h) ==
    /\ hnd[h].pc = "idle"
    /\ h > 1 => hnd[h - 1].pc # "idle"
    /\ \E kind \in {"http", "tcp"}, k \in KeyIDs, ex \in {"yes", "no", "err"} :
         /\ tunnels[EdgeManager(kind)][k] = <<>>
         /\ hnd' = [hnd EXCEPT ![h] =
                        Done([@ EXCEPT !.kind = kind, !.rc = "KeyIDNotFound",
                                       !.exists = ex],
                             KeyNotFoundResult(ex))]
    /\ UNCHANGED <<tcpAllocator, conn, tunnels, req, strm, notifier, authVars, edgeVars>>

\* RequestConnection with a control connection registered: the connection is
\* signalled to open a reverse stream for a new request, or signalling fails
RequestTunnel(h) ==
    /\ hnd[h].pc = "idle"
    /\ h > 1 => hnd[h - 1].pc # "idle"
    /\ \E kind \in {"http", "tcp"}, k \in KeyIDs, ok \in BOOLEAN :
         \E c \in Range(tunnels[EdgeManager(kind)][k]) :
            IF ok
            THEN /\ hnd' = [hnd EXCEPT ![h].pc = "wait", ![h].kind = kind,
                                       ![h].key = k, ![h].rc = "ok"]
                 /\ req' = [req EXCEPT ![h].state = "pending",
                                       ![h].mng = EdgeManager(kind),
                                       ![h].key = k, ![h].parent = c,
                                       ![h].ord = CreateOrder,
                                       ![h].sig = SignalOrder]
            ELSE /\ hnd' = [hnd EXCEPT ![h] =
                            Done([@ EXCEPT !.kind = kind, !.rc = "error"],
                                 "FailedToConnect")]
                 /\ UNCHANGED req
    /\ UNCHANGED <<tcpAllocator, conn, tunnels, strm, notifier, authVars, edgeVars>>

\* the end user's request context is cancelled
RequestCtxCancel(h) ==
    /\ hnd[h].pc \in {"wait", "meta", "initial", "pipe"}
    /\ ~hnd[h].ctxDone
    /\ hnd' = [hnd EXCEPT ![h].ctxDone = TRUE]
    /\ UNCHANGED <<tcpAllocator, conn, tunnels, req, strm, notifier, authVars, edgeVars>>

\* req.WaitConn(ctx) returns the resolved stream
WaitConnOk(h) ==
    /\ hnd[h].pc = "wait"
    /\ req[h].state = "resolved"
    /\ hnd' = [hnd EXCEPT ![h].pc = "meta", ![h].waits = @ + 1,
                          ![h].stream = req[h].stream]
    /\ UNCHANGED <<tcpAllocator, conn, tunnels, req, strm, notifier, authVars, edgeVars>>

\* req.WaitConn(ctx) returns an error: the caller's context is done or the
\* request failed
WaitConnErr(h) ==
    /\ hnd[h].pc = "wait"
    /\ hnd[h].ctxDone \/ req[h].state = "failed"
    /\ hnd' = [hnd EXCEPT ![h].pc = "cancel", ![h].waits = @ + 1]
    /\ UNCHANGED <<tcpAllocator, conn, tunnels, req, strm, notifier, authVars, edgeVars>>

\* connMng.CancelRequest(req.ID()) after WaitConn's error
Cancel(h) ==
    /\ hnd[h].pc = "cancel"
    /\ hnd' = [hnd EXCEPT ![h] = Done(@, "FailedToConnect")]
    /\ req' = CancelRequest(EdgeManager(hnd[h].kind), h)
    /\ UNCHANGED <<tcpAllocator, conn, tunnels, strm, notifier, authVars, edgeVars>>

\* the pipe tasks and the guard are started
StartPipe(r) == [r EXCEPT !.pc = "pipe", !.dst = "run", !.src = "run", !.guard = "wait"]

\* meta.WriteData(revConn, ClientConnMeta{IP})
WriteMeta(h) ==
    /\ hnd[h].pc = "meta"
    /\ \E ok \in BOOLEAN :
         IF ok
         THEN /\ hnd' = [hnd EXCEPT ![h] =
                    IF hnd[h].kind = "http"
                    THEN [@ EXCEPT !.pc = "initial", !.meta = "ok"]
                    ELSE StartPipe([@ EXCEPT !.meta = "ok"])]
              /\ UNCHANGED notifier
         ELSE /\ hnd' = [hnd EXCEPT ![h] =
                            Done([@ EXCEPT !.meta = "fail"], "FailedToConnect")]
              /\ notifier' = IF hnd[h].kind = "tcp"
                             THEN [notifier EXCEPT ![hnd[h].stream] = Close(@)]
                             ELSE notifier
    /\ UNCHANGED <<tcpAllocator, conn, tunnels, req, strm, authVars, edgeVars>>

\* variant: a failed write of the initial request is only logged
AfterInitial_FailureIgnored(r, ok) ==
    StartPipe([r EXCEPT !.initial = IF ok THEN "ok" ELSE "fail"])

\* after write(revConn): the pipe starts, or the handler returns FailedToConnect
AfterInitial(r, ok) ==
    IF ok THEN StartPipe([r EXCEPT !.initial = "ok"])
    ELSE Done([r EXCEPT !.initial = "fail"], "FailedToConnect")

\* write(revConn): replay of the buffered request prefix (HTTP only)
WriteInitial(h) ==
    /\ hnd[h].pc = "initial"
    /\ \E ok \in BOOLEAN :
         hnd' = [hnd EXCEPT ![h] = AfterInitial(@, ok)]
    /\ UNCHANGED <<tcpAllocator, conn, tunnels, req, strm, notifier, authVars, edgeVars>>

\* how an io.Copy may end: clean EOF, net.ErrClosed, ECONNRESET, another error
CopyEnds == {"eof", "closed", "reset", "io"}

\* variant: a clean end of the copy reported like a closed connection
PipeToDestResult_EofIsClosed(e, cw) ==
    CASE e \in {"eof", "closed", "reset"} -> "ConnClosed"
      [] OTHER -> "IOError"

\* pipeToDest's return value from the copy's end and CloseWrite's
PipeToDestResult(e, cw) ==
    CASE e \in {"closed", "reset"} -> "ConnClosed"
      [] e = "io" -> "IOError"
      [] e = "eof" /\ cw = "io" -> "IOError"
      [] OTHER -> "nil"

\* variant: pipeToSource returns nil after a clean end, as pipeToDest does
PipeToSourceResult_EofIsNil(e) ==
    CASE e \in {"closed", "reset"} -> "ConnClosed"
      [] e = "io" -> "IOError"
      [] OTHER -> "nil"

\* pipeToSource's return value from the copy's end
PipeToSourceResult(e) ==
    CASE e \in {"closed", "reset"} -> "ConnClosed"
      [] e = "io" -> "IOError"
      [] OTHER -> "ConnClosed"

\* errgroup keeps the first non-nil error
FirstError(cur, r) == IF cur = "none" /\ r # "nil" THEN r ELSE cur

\* the reverse stream was closed on the server's side
StreamClosed(h) == notifier[hnd[h].stream].closes > 0

\* the end user finished sending and half-closed
UserHalfClose(h) ==
    /\ hnd[h].pc = "pipe"
    /\ ~hnd[h].userEOF
    /\ hnd' = [hnd EXCEPT ![h].userEOF = TRUE]
    /\ UNCHANGED <<tcpAllocator, conn, tunnels, req, strm, notifier, authVars, edgeVars>>

\* the client writes a response byte to the reverse stream
ClientSend(h) ==
    /\ hnd[h].pc = "pipe"
    /\ ~hnd[h].cliEOF
    /\ hnd[h].sent < MaxBytes
    /\ hnd' = [hnd EXCEPT ![h].sent = @ + 1]
    /\ UNCHANGED <<tcpAllocator, conn, tunnels, req, strm, notifier, authVars, edgeVars>>

\* the client closes its side of the reverse stream
ClientClose(h) ==
    /\ hnd[h].pc = "pipe"
    /\ ~hnd[h].cliEOF
    /\ hnd' = [hnd EXCEPT ![h].cliEOF = TRUE]
    /\ UNCHANGED <<tcpAllocator, conn, tunnels, req, strm, notifier, authVars, edgeVars>>

\* io.Copy in pipeToSource moves a response byte to the end user
CopyToUser(h) ==
    /\ hnd[h].pc = "pipe"
    /\ hnd[h].src = "run"
    /\ hnd[h].copied < hnd[h].sent
    /\ ~StreamClosed(h)
    /\ hnd' = [hnd EXCEPT ![h].copied = @ + 1]
    /\ UNCHANGED <<tcpAllocator, conn, tunnels, req, strm, notifier, authVars, edgeVars>>

\* when io.Copy(revConn, user) can end with e: EOF once the user half-closed,
\* net.ErrClosed once the stream is closed; resets and other errors are faults
PipeToDestCanEnd(h, e) ==
    CASE e = "eof" -> hnd[h].userEOF
      [] e = "closed" -> StreamClosed(h)
      [] OTHER -> TRUE

\* when io.Copy(user, revConn) can end with e: EOF once the client closed and
\* its bytes are copied, net.ErrClosed once the stream is closed
PipeToSourceCanEnd(h, e) ==
    CASE e = "eof" -> hnd[h].cliEOF /\ hnd[h].copied = hnd[h].sent
      [] e = "closed" -> StreamClosed(h)
      [] OTHER -> TRUE

\* variant: pipeToDest does not half-close the reverse stream
PipeToDestClosesWrite_Never(e) == FALSE

\* pipeToDest calls dst.CloseWrite() after a copy that ended without error
PipeToDestClosesWrite(e) == e = "eof"

\* pipeToSource has no CloseWrite call
PipeToSourceClosesWrite(e) == FALSE

PipeToDestEnd(h, e) ==
    /\ hnd[h].pc = "pipe"
    /\ hnd[h].dst = "run"
    /\ PipeToDestCanEnd(h, e)
    /\ \E cw \in {"ok", "closed", "io"} :
         hnd' = [hnd EXCEPT ![h].dst = PipeToDestResult(e, cw),
                            ![h].fin = IF PipeToDestClosesWrite(e) THEN cw ELSE "none",
                            ![h].egErr = FirstError(@, PipeToDestResult(e, cw))]
    /\ UNCHANGED <<tcpAllocator, conn, tunnels, req, strm, notifier, authVars, edgeVars>>

PipeToDest(h) == \E e \in CopyEnds : PipeToDestEnd(h, e)

PipeToSourceEnd(h, e) ==
    /\ hnd[h].pc = "pipe"
    /\ hnd[h].src = "run"
    /\ PipeToSourceCanEnd(h, e)
    /\ hnd' = [hnd EXCEPT ![h].src = PipeToSourceResult(e),
                          ![h].srcEnd = e,
                          ![h].written = hnd[h].copied,
                          ![h].userFin = PipeToSourceClosesWrite(e),
                          ![h].egErr = FirstError(@, PipeToSourceResult(e))]
    /\ UNCHANGED <<tcpAllocator, conn, tunnels, req, strm, notifier, authVars, edgeVars>>

PipeToSource(h) == \E e \in CopyEnds : PipeToSourceEnd(h, e)

\* the errgroup context is done: the request context is, a task returned an
\* error, or Wait returned
PipeCtxDone(h) ==
    \/ hnd[h].ctxDone
    \/ hnd[h].egErr # "none"
    \/ hnd[h].dst # "run" /\ hnd[h].src # "run"

\* which Done() the guard's select took
GuardCauses(h) ==
    LET tasks == hnd[h].egErr # "none" \/ (hnd[h].dst # "run" /\ hnd[h].src # "run")
    IN  (IF conn[req[h].parent].ctxDone THEN {"parent"} ELSE {})
        \cup (IF PipeCtxDone(h)
              THEN {IF hnd[h].ctxDone /\ ~tasks THEN "ctx" ELSE "task"}
              ELSE {})

\* variant: the guard closes every stream opened through the same control connection
Guard_ClosesSiblings(h) ==
    /\ hnd[h].pc = "pipe"
    /\ hnd[h].guard = "wait"
    /\ PipeCtxDone(h) \/ conn[req[h].parent].ctxDone
    /\ \E by \in GuardCauses(h) :
         hnd' = [hnd EXCEPT ![h].guard = "done", ![h].guardBy = by]
    /\ notifier' = [n \in StreamIDs |->
                      IF \E g \in Handlers : /\ req[g].state = "resolved"
                                             /\ req[g].parent = req[h].parent
                                             /\ req[g].stream = n
                      THEN Close(notifier[n])
                      ELSE notifier[n]]
    /\ UNCHANGED <<tcpAllocator, conn, tunnels, req, strm, authVars, edgeVars>>

\* variant: the guard waits for the request's context only
Guard_ReqCtxOnly(h) ==
    /\ hnd[h].pc = "pipe"
    /\ hnd[h].guard = "wait"
    /\ PipeCtxDone(h)
    /\ hnd' = [hnd EXCEPT ![h].guard = "done",
                          ![h].guardBy = IF hnd[h].ctxDone /\ hnd[h].egErr = "none"
                                         THEN "ctx" ELSE "task"]
    /\ notifier' = [notifier EXCEPT ![hnd[h].stream] = Close(@)]
    /\ UNCHANGED <<tcpAllocator, conn, tunnels, req, strm, authVars, edgeVars>>

\* closeOnContextDone: the guard closes the reverse stream
Guard(h) ==
    /\ hnd[h].pc = "pipe"
    /\ hnd[h].guard = "wait"
    /\ PipeCtxDone(h) \/ conn[req[h].parent].ctxDone
    /\ \E by \in GuardCauses(h) :
         hnd' = [hnd EXCEPT ![h].guard = "done", ![h].guardBy = by]
    /\ notifier' = [notifier EXCEPT ![hnd[h].stream] = Close(@)]
    /\ UNCHANGED <<tcpAllocator, conn, tunnels, req, strm, authVars, edgeVars>>

\* variant: the zero-byte check left out
HTTPResult_ErrOnly(written, err) ==
    IF err # "none" /\ err # "ConnClosed" THEN err ELSE "nil"

\* variant: the errgroup's error returned without the ErrConnClosed test
HTTPResult_NoCloseFilter(written, err) ==
    IF written <= 0 THEN "FailedToConnect"
    ELSE IF err # "none" THEN err
    ELSE "nil"

\* HandleHTTPConnection's result after eg.Wait()
HTTPResult(written, err) ==
    IF written <= 0 THEN "FailedToConnect"
    ELSE IF err # "none" /\ err # "ConnClosed" THEN err
    ELSE "nil"

\* HandleTCPConnection's result after eg.Wait()
TCPResult(written, err) == "nil"

\* eg.Wait() returned and the deferred guard.Wait() too
Finish(h) ==
    /\ hnd[h].pc = "pipe"
    /\ hnd[h].dst # "run" /\ hnd[h].src # "run"
    /\ hnd[h].guard = "done"
    /\ hnd' = [hnd EXCEPT ![h] =
                  Done(@, IF hnd[h].kind = "http"
                          THEN HTTPResult(hnd[h].written, hnd[h].egErr)
                          ELSE TCPResult(hnd[h].written, hnd[h].egErr))]
    /\ UNCHANGED <<tcpAllocator, conn, tunnels, req, strm, notifier, authVars, edgeVars>>

HandlerNext ==
    \E h \in Handlers :
        \/ RequestNoTunnel(h)
        \/ RequestTunnel(h)
        \/ RequestCtxCancel(h)
        \/ WaitConnOk(h)
        \/ WaitConnErr(h)
        \/ Cancel(h)
        \/ WriteMeta(h)
        \/ WriteInitial(h)
        \/ UserHalfClose(h)
        \/ ClientSend(h)
        \/ ClientClose(h)
        \/ CopyToUser(h)
        \/ PipeToDest(h)
        \/ PipeToSource(h)
        \/ Guard(h)
        \/ Finish(h)

\* ------------------------------------------- acceptV2Streams / handleV2Stream
\* variant: handleV2Stream called in the accept loop instead of in a task of
\* its own
AcceptLoopReady_Inline(c) ==
    \A s \in Streams : strm[s].owner = c => strm[s].pc \notin {"preamble", "waitclose"}

\* acceptV2Streams is back in AcceptStream() as soon as it has started the
\* task of the stream it accepted
AcceptLoopReady(c) == TRUE

\* servConn.AcceptStream() on a live V2 control connection; go handleV2Stream
AcceptStream(s) ==
    /\ strm[s].pc = "idle"
    /\ s > 1 => strm[s - 1].pc # "idle"
    /\ \E c \in Conns :
         /\ conn[c].pc = "ping" /\ conn[c].v2 /\ ~conn[c].ctxDone
         /\ AcceptLoopReady(c)
         /\ strm' = [strm EXCEPT ![s].pc = "preamble", ![s].owner = c]
    /\ UNCHANGED <<tcpAllocator, conn, tunnels, req, hnd, notifier, authVars, edgeVars>>

\* where the bind preamble of a stream may fail, in program order
V2Failures ==
    {"deadline", "readcmd", "version", "command", "readuuid", "cleardeadline",
     "write", "notifier"}

\* variant: the request is resolved although the success response was not written
V2Preamble_ResolveUnwritten(fail) ==
    [wrote |-> fail \in {"none", "notifier"},
     resolve |-> fail \in {"none", "write"},
     close |-> fail \notin {"none", "write"}]

\* handleV2Stream up to ResolveRequest: whether the success response was
\* written and whether the request is resolved, given where the preamble failed
V2Preamble(fail) ==
    [wrote |-> fail \in {"none", "notifier"},
     resolve |-> fail = "none",
     close |-> fail # "none"]

HandleV2Stream(s) ==
    /\ strm[s].pc = "preamble"
    /\ \E fail \in V2Failures \cup {"none"}, id \in BindIDs :
         LET out == V2Preamble(fail)
             m == ManagerOf(conn[strm[s].owner].ttype)
             n == <<"s", s>>
             uuid == IF fail \in {"deadline", "readcmd", "version", "command", "readuuid"}
                     THEN NoReq ELSE id
         IN  /\ strm' = [strm EXCEPT ![s] =
                    IF out.resolve
                    THEN [@ EXCEPT !.pc = "waitclose", !.uuid = uuid,
                                   !.wrote = out.wrote, !.resolves = @ + 1,
                                   !.resolvedID = uuid]
                    ELSE [InitStrm EXCEPT !.pc = "closed", !.fail = fail,
                                          !.wrote = out.wrote]]
             /\ req' = IF out.resolve THEN ResolveRequest(m, uuid, n) ELSE req
             /\ notifier' =
                  LET nf == IF out.resolve THEN ResolveCloses(m, uuid, n) ELSE notifier
                  IN  IF out.close THEN [nf EXCEPT ![n] = Close(@)] ELSE nf
    /\ UNCHANGED <<tcpAllocator, conn, tunnels, hnd, authVars, edgeVars>>

\* notifier.WaitClose(ctx) returns in handleV2Stream
WaitCloseStream(s) ==
    /\ strm[s].pc = "waitclose"
    /\ WaitCloseReturns(<<"s", s>>, conn[strm[s].owner].ctxDone)
    /\ strm' = [strm EXCEPT ![s].pc = "returned", ![s].owner = 0]
    /\ UNCHANGED <<tcpAllocator, conn, tunnels, req, hnd, notifier, authVars, edgeVars>>

StreamNext ==
    \E s \in 1..MaxAccepts :
        \/ AcceptStream(s)
        \/ HandleV2Stream(s)
        \/ WaitCloseStream(s)

\* ------------------------------------------------------------ auth repository
\* strings are sequences of symbols, so that store keys are built by
\* concatenation as the code builds them
keyPrefix == <<"prefix::">>
apiKeyPrefix == <<"API_KEY::">>
scryptPrefix == <<"sc:">>
salt == <<"salt">>

TokenIDs == {<<"a">>, <<"b">>}
Secrets == {<<"s1">>, <<"s2">>}
TypeChars == {"w", "t"}
\* arguments of IsKeyExists: the base IDs and a string that spells a store suffix
ProbeIDs == TokenIDs \cup {apiKeyPrefix \o <<"a">>}
\* arguments of Verify: with a valid suffix, a wrong one, none
SuffixedIDs ==
    {id \o <<"-", ch>> : id \in TokenIDs, ch \in TypeChars \cup {"x"}} \cup TokenIDs

Nil == <<>>
StoreKeys ==
    {keyPrefix \o apiKeyPrefix \o id : id \in TokenIDs}
    \cup {keyPrefix \o id : id \in ProbeIDs}

\* variant: the secret does not enter the hash
hashSecret_NoSecret(secret, slt) == scryptPrefix \o slt

\* hashSecret: "sc:" + base64(scrypt(secret, salt, 1<<15, 8, 1, 32)); the key
\* derivation is deterministic and distinct secrets give distinct keys
hashSecret(secret, slt) == scryptPrefix \o secret \o slt

\* the store key SaveToken, Verify and DeleteToken use
TokenKey(id) == keyPrefix \o apiKeyPrefix \o id

\* the store key IsKeyExists probes
ExistsKey(id) == keyPrefix \o id

\* token.ExtractIDAndType: split at the last "-"; w -> web, t -> tcp
LastDash(s) ==
    LET at == {i \in 1..Len(s) : s[i] = "-"}
    IN  IF at = {} THEN 0 ELSE CHOOSE i \in at : \A j \in at : j <= i

ExtractIDAndType(s) ==
    LET i == LastDash(s)
        ch == IF i = 0 THEN <<>> ELSE SubSeq(s, i + 1, Len(s))
    IN  IF i = 0 \/ ch \notin {<<"w">>, <<"t">>}
        THEN [id |-> <<>>, type |-> "", err |-> "InvalidTypeSuffix"]
        ELSE [id |-> SubSeq(s, 1, i - 1),
              type |-> IF ch = <<"w">> THEN "web" ELSE "tcp",
              err |-> "nil"]

\* variant: a missing key reported as a store error
Verify_NilIsError(keyIDWithSuffix, secret, fault) ==
    LET x == ExtractIDAndType(keyIDWithSuffix)
    IN  IF x.err # "nil" THEN [tok |-> Nil, err |-> x.err, reads |-> 0]
        ELSE IF fault \/ db[TokenKey(x.id)] = Nil
             THEN [tok |-> Nil, err |-> "StoreFault", reads |-> 1]
        ELSE IF db[TokenKey(x.id)] # hashSecret(secret, salt)
             THEN [tok |-> Nil, err |-> "nil", reads |-> 1]
        ELSE [tok |-> <<x.id, x.type>>, err |-> "nil", reads |-> 1]

\* variant: the store is read before the suffix is looked at
Verify_ReadFirst(keyIDWithSuffix, secret, fault) ==
    LET x == ExtractIDAndType(keyIDWithSuffix)
    IN  IF fault THEN [tok |-> Nil, err |-> "StoreFault", reads |-> 1]
        ELSE IF x.err # "nil" THEN [tok |-> Nil, err |-> x.err, reads |-> 1]
        ELSE IF db[TokenKey(x.id)] = Nil THEN [tok |-> Nil, err |-> "nil", reads |-> 1]
        ELSE IF db[TokenKey(x.id)] # hashSecret(secret, salt)
             THEN [tok |-> Nil, err |-> "nil", reads |-> 1]
        ELSE [tok |-> <<x.id, x.type>>, err |-> "nil", reads |-> 1]

\* Repo.Verify; fault: the store read fails; reads: the Get calls made
Verify(keyIDWithSuffix, secret, fault) ==
    LET x == ExtractIDAndType(keyIDWithSuffix)
    IN  IF x.err # "nil" THEN [tok |-> Nil, err |-> x.err, reads |-> 0]
        ELSE IF fault THEN [tok |-> Nil, err |-> "StoreFault", reads |-> 1]
        ELSE IF db[TokenKey(x.id)] = Nil THEN [tok |-> Nil, err |-> "nil", reads |-> 1]
        ELSE IF db[TokenKey(x.id)] # hashSecret(secret, salt)
             THEN [tok |-> Nil, err |-> "nil", reads |-> 1]
        ELSE [tok |-> <<x.id, x.type>>, err |-> "nil", reads |-> 1]

\* Repo.IsKeyExists; fault: the store call fails
IsKeyExists(keyID, fault) ==
    IF fault THEN [res |-> FALSE, err |-> "StoreFault"]
    ELSE [res |-> db[ExistsKey(keyID)] # Nil, err |-> "nil"]

\* variant: SET in place of SETNX
SaveTokenResult_Overwrite(id, fault) == IF fault THEN "StoreFault" ELSE "nil"

\* Repo.SaveToken: SetNX
SaveTokenResult(id, fault) ==
    IF fault THEN "StoreFault"
    ELSE IF db[TokenKey(id)] # Nil THEN "DuplicateTokenID"
    ELSE "nil"

\* variant: the count Del returns is not looked at
DeleteTokenResult_IgnoreCount(id, fault) == IF fault THEN "StoreFault" ELSE "nil"

\* Repo.DeleteToken: Del
DeleteTokenResult(id, fault) ==
    IF fault THEN "StoreFault"
    ELSE IF db[TokenKey(id)] = Nil THEN "TokenNotFound"
    ELSE "nil"

NoCall == [op |-> "none", id |-> <<>>, secret |-> <<>>, fault |-> FALSE,
           tok |-> Nil, res |-> FALSE, err |-> "nil", reads |-> 0]

AuthInit ==
    /\ db = [k \in StoreKeys |-> Nil]
    /\ stored = {}
    /\ savedType = [id \in TokenIDs |-> "none"]
    /\ last = NoCall

SaveToken ==
    \E id \in TokenIDs, secret \in Secrets, type \in Kinds, fault \in BOOLEAN :
        LET r == SaveTokenResult(id, fault)
        IN  /\ db' = IF r = "nil"
                     THEN [db EXCEPT ![TokenKey(id)] = hashSecret(secret, salt)]
                     ELSE db
            /\ stored' = IF r = "nil" THEN stored \cup {<<id, secret>>} ELSE stored
            /\ savedType' = IF r = "nil" THEN [savedType EXCEPT ![id] = type]
                            ELSE savedType
            /\ last' = [NoCall EXCEPT !.op = "SaveToken", !.id = id,
                                      !.secret = secret, !.fault = fault, !.err = r]
            /\ UNCHANGED <<coreVars, edgeVars>>

DeleteToken ==
    \E id \in TokenIDs, fault \in BOOLEAN :
        LET r == DeleteTokenResult(id, fault)
        IN  /\ db' = IF r = "nil" THEN [db EXCEPT ![TokenKey(id)] = Nil] ELSE db
            /\ stored' = IF r = "nil" THEN {p \in stored : p[1] # id} ELSE stored
            /\ savedType' = IF r = "nil" THEN [savedType EXCEPT ![id] = "none"]
                            ELSE savedType
            /\ last' = [NoCall EXCEPT !.op = "DeleteToken", !.id = id,
                                      !.fault = fault, !.err = r]
            /\ UNCHANGED <<coreVars, edgeVars>>

\* the TTL given to SetNX elapses: the store drops the key
Expire ==
    \E id \in TokenIDs :
        /\ db[TokenKey(id)] # Nil
        /\ db' = [db EXCEPT ![TokenKey(id)] = Nil]
        /\ stored' = {p \in stored : p[1] # id}
        /\ savedType' = [savedType EXCEPT ![id] = "none"]
        /\ last' = [NoCall EXCEPT !.op = "Expire", !.id = id]
        /\ UNCHANGED <<coreVars, edgeVars>>

CallIsKeyExists ==
    \E id \in ProbeIDs, fault \in BOOLEAN :
        LET r == IsKeyExists(id, fault)
        IN  /\ last' = [NoCall EXCEPT !.op = "IsKeyExists", !.id = id,
                                      !.fault = fault, !.res = r.res, !.err = r.err]
            /\ UNCHANGED <<db, stored, savedType, coreVars, edgeVars>>

CallVerify ==
    \E k \in SuffixedIDs, secret \in Secrets, fault \in BOOLEAN :
        LET r == Verify(k, secret, fault)
        IN  /\ last' = [NoCall EXCEPT !.op = "Verify", !.id = k, !.secret = secret,
                                      !.fault = fault, !.tok = r.tok, !.err = r.err,
                                      !.reads = r.reads]
            /\ UNCHANGED <<db, stored, savedType, coreVars, edgeVars>>

AuthNext ==
    \/ SaveToken
    \/ DeleteToken
    \/ Expire
    \/ CallIsKeyExists
    \/ CallVerify

\* ------------------------------------------------------------ specifications
\* ------------------------------------------------------- key-ID middleware
\* host names are sequences of symbols: a DNS label, "." or ":", a port
Labels == {"k", "e", "c"}
MaxLabels == 3

\* the parts a name is put together from: a label or nothing
Parts == {<<>>} \cup {<<l>> : l \in Labels}

RECURSIVE Join(_)
Join(ps) ==
    IF ps = <<>> THEN <<>>
    ELSE IF Len(ps) = 1 THEN ps[1]
    ELSE ps[1] \o <<".">> \o Join(Tail(ps))

\* what a request may carry as Host or X-Upstream-Host: nothing, names of up
\* to MaxLabels parts, each also with a port
HostNames == {Join(ps) : ps \in UNION {[1..n -> Parts] : n \in 0..MaxLabels}}
HostValues == HostNames \cup {h \o <<":", "443">> : h \in HostNames}

\* the domain the middleware is configured with: one, two or three labels
Domains == {<<"c">>, <<"e", ".", "c">>, <<"k", ".", "e", ".", "c">>}

\* position of the first sep in s, 0 if there is none
IndexOf(s, sep) ==
    IF \E i \in 1..Len(s) : s[i] = sep
    THEN CHOOSE i \in 1..Len(s) : s[i] = sep /\ \A j \in 1..(i - 1) : s[j] # sep
    ELSE 0

\* strings.Split(s, sep)
RECURSIVE Split(_, _)
Split(s, sep) ==
    LET i == IndexOf(s, sep)
    IN  IF i = 0 THEN <<s>>
        ELSE <<SubSeq(s, 1, i - 1)>> \o Split(SubSeq(s, i + 1, Len(s)), sep)

\* strings.HasSuffix(s, suffix)
HasSuffix(s, suffix) ==
    /\ Len(s) >= Len(suffix)
    /\ SubSeq(s, Len(s) - Len(suffix) + 1, Len(s)) = suffix

matchesDomain(host, domainPostfix) ==
    host = domainPostfix \/ HasSuffix(host, <<".">> \o domainPostfix)

\* variant: the Host header looked at before X-Upstream-Host
resolveHost_HostFirst(rHost, upstreamHost, domainPostfix) ==
    LET host == Split(rHost, ":")[1]
        up == Split(upstreamHost, ":")[1]
    IN  IF matchesDomain(host, domainPostfix) THEN host
        ELSE IF upstreamHost # <<>> /\ matchesDomain(up, domainPostfix) THEN up
        ELSE <<>>

\* resolveHost(r, domainPostfix), r.Host and r.Header.Get(UpstreamHostHeader)
resolveHost(rHost, upstreamHost, domainPostfix) ==
    LET host == Split(rHost, ":")[1]
        up == Split(upstreamHost, ":")[1]
    IN  IF upstreamHost # <<>> /\ matchesDomain(up, domainPostfix) THEN up
        ELSE IF matchesDomain(host, domainPostfix) THEN host
        ELSE <<>>

extractKeyIDFromHost(host) ==
    IF host # <<>>
    THEN LET parts == Split(Split(host, ":")[1], ".")
         IN  IF Len(parts) > 2 THEN parts[1] ELSE <<>>
    ELSE <<>>

\* the handler ParseKeyID(domainPostfix) builds, serving one request
ParseKeyID(domainPostfix, rHost, upstreamHost) ==
    LET host == resolveHost(rHost, upstreamHost, domainPostfix)
        keyID == extractKeyIDFromHost(host)
    IN  IF host = <<>>
        THEN [effective |-> host, status |-> 404, next |-> FALSE, keyID |-> <<>>]
        ELSE IF keyID = <<>>
        THEN [effective |-> host, status |-> 404, next |-> FALSE, keyID |-> <<>>]
        ELSE [effective |-> host, status |-> 200, next |-> TRUE, keyID |-> keyID]

NoServe ==
    [served |-> FALSE, host |-> <<>>, upstream |-> <<>>, effective |-> <<>>,
     status |-> 0, next |-> FALSE, keyID |-> <<>>]

\* the middleware is not part of the tunnel core's runs
InitCli ==
    [pc |-> "idle", meta |-> "none", dial |-> "none", fwd |-> 0,
     native |-> FALSE, toDest |-> "none", toRev |-> "none",
     cwDest |-> 0, cwRev |-> 0, egErr |-> FALSE, guard |-> FALSE,
     revClosed |-> FALSE, destClosed |-> FALSE]

InitRun ==
    [pc |-> "idle", ctxDone |-> FALSE, lnClosed |-> FALSE, err |-> "none",
     wg |-> 0, ret |-> "none"]

\* no client runs
CliInit == cli = [h \in Handlers |-> InitCli] /\ run = InitRun

\* const connectionTimeout = 5 * time.Second
TimeoutInit == connectionTimeout = 5

EdgeInit ==
    mw = NoServe @@ [domain |-> <<"e", ".", "c">>] /\ CliInit /\ TimeoutInit

MiddlewareInit ==
    /\ CoreInit
    /\ AuthInit
    /\ \E d \in Domains : mw = NoServe @@ [domain |-> d]
    /\ CliInit
    /\ TimeoutInit

\* a request goes through the middleware; the next handler answers 200. The
\* handler keeps no state between requests, so one request is followed
ServeHTTP ==
    /\ ~mw.served
    /\ \E rHost \in HostValues, upstreamHost \in HostValues :
         LET out == ParseKeyID(mw.domain, rHost, upstreamHost)
         IN  mw' = [mw EXCEPT !.served = TRUE, !.host = rHost,
                              !.upstream = upstreamHost,
                              !.effective = out.effective, !.status = out.status,
                              !.next = out.next, !.keyID = out.keyID]
    /\ UNCHANGED <<coreVars, authVars, cli, run, connectionTimeout>>

MiddlewareSpec == MiddlewareInit /\ [][ServeHTTP]_vars

Init == CoreInit /\ AuthInit /\ EdgeInit

RendezvousNext ==
    \E h \in 1..MaxCalls :
        \/ RequestNoTunnel(h)
        \/ RequestTunnel(h)
        \/ RequestCtxCancel(h)
        \/ WaitConnOk(h)
        \/ WaitConnErr(h)
        \/ Cancel(h)

Next == ConnNext \/ RendezvousNext \/ StreamNext

\* reverse connections, the manager and the edge handlers up to the delivery
\* of the reverse stream
Spec == Init /\ [][Next]_vars

\* the auth repository
AuthSpec == Init /\ [][AuthNext]_vars

\* a state Spec reaches: the control connection of token t is registered and
\* in its keepalive loop, request 1 for its key was resolved with a reverse
\* stream (a bound V1 connection, or a V2 stream) and WaitConn returned it
Delivered(t, v2) ==
    LET m == ManagerOf(t[2])
        n == IF v2 THEN <<"s", 1>> ELSE <<"c", 2>>
    IN  /\ tcpAllocator = "pool"
        /\ conn = [c \in Conns |->
               IF c = 1
               THEN [InitConn EXCEPT !.pc = "ping", !.key = t[1], !.ttype = t[2],
                                     !.v2 = v2, !.timer = "stopped", !.evt = TRUE,
                                     !.deferRelease = (t[2] = "tcp"),
                                     !.deferRemove = TRUE,
                                     !.allocs = IF t[2] = "tcp" THEN 1 ELSE 0,
                                     !.adds = 1]
               ELSE IF c = 2 /\ ~v2
               THEN [InitConn EXCEPT !.pc = "waitclose", !.key = t[1], !.ttype = t[2],
                                     !.timer = "stopped", !.bind = 1, !.resolves = 1]
               ELSE InitConn]
        /\ tunnels = [k \in Kinds |-> [i \in KeyIDs |->
                         IF k = m /\ i = t[1] THEN <<1>> ELSE <<>>]]
        /\ req = [r \in Handlers |->
               IF r = 1
               THEN [InitReq EXCEPT !.state = "resolved", !.mng = m, !.key = t[1],
                                    !.parent = 1, !.stream = n, !.resolveCalls = 1,
                                    !.ord = 1, !.sig = 1]
               ELSE InitReq]
        /\ hnd = [h \in Handlers |->
               IF h = 1
               THEN [InitHnd EXCEPT !.pc = "meta", !.key = t[1], !.rc = "ok",
                                    !.kind = IF m = "web" THEN "http" ELSE "tcp",
                                    !.waits = 1, !.stream = n]
               ELSE InitHnd]
        /\ strm = [s \in Streams |->
               IF s = 1 /\ v2
               THEN [InitStrm EXCEPT !.pc = "waitclose", !.owner = 1, !.uuid = 1,
                                     !.wrote = TRUE, !.resolves = 1, !.resolvedID = 1]
               ELSE InitStrm]
        /\ notifier = [i \in StreamIDs |-> [closes |-> 0, panic |-> FALSE]]

PipeInit == AuthInit /\ EdgeInit /\ \E t \in Tokens, v2 \in BOOLEAN : Delivered(t, v2)

PipeNext ==
    \/ \E h \in Handlers :
          \/ RequestCtxCancel(h)
          \/ WriteMeta(h)
          \/ WriteInitial(h)
          \/ UserHalfClose(h)
          \/ ClientSend(h)
          \/ ClientClose(h)
          \/ CopyToUser(h)
          \/ PipeToDest(h)
          \/ PipeToSource(h)
          \/ Guard(h)
          \/ Finish(h)
    \/ \E c \in Conns :
          \/ CtxCancel(c)
          \/ PingCtxDone(c)
          \/ PingFail(c)
          \/ WaitClose(c)
    \/ \E s \in Streams : WaitCloseStream(s)

\* the edge handlers from the delivery of the reverse stream on
PipeSpec == PipeInit /\ [][PipeNext]_vars

\* Spec with the scheduling the runtime gives a waiter: a goroutine blocked in
\* WaitConn on a failed request is woken and runs
FairSpec == Spec /\ \A h \in Handlers : WF_vars(WaitConnErr(h))

\* ------------------------------------------------------------------ claims

\* C1: for a request ID handed out by RequestConnection, ResolveRequest(id, _)
\* and CancelRequest(id) are never both invoked
C1_NeverResolveAndCancel ==
    \A r \in Handlers : ~(req[r].resolveCalls > 0 /\ req[r].cancelCalls > 0)

\* C2: no request stays pending for a key without control connections: the
\* removal of the last one fails it, and a waiter blocked in WaitConn on a
\* failed request eventually leaves WaitConn
C2_LastRemovalFailsPending ==
    /\ [](\A r \in Handlers :
            req[r].state = "pending" => tunnels[req[r].mng][req[r].key] # <<>>)
    /\ \A r \in Handlers :
          (hnd[r].pc = "wait" /\ req[r].state = "failed") ~> (hnd[r].pc # "wait")

\* a waiter is blocked in WaitConn on a request that the removal of the last
\* control connection failed
C2_Witness ==
    \E r \in Handlers :
        /\ hnd[r].pc = "wait"
        /\ req[r].state = "failed"
        /\ \E c \in Conns : conn[c].pc = "closed" /\ conn[c].removes > 0
        /\ tunnels[req[r].mng][hnd[r].key] = <<>>

\* C3: a connection is in a manager only after its client was sent the
\* endpoint: no AddConnection without the event, and no request is issued
\* through a connection whose event was not sent
C3_EventBeforeAdd ==
    /\ \A c \in Conns : conn[c].adds > 0 => conn[c].evt
    /\ \A m \in Kinds, k \in KeyIDs : \A c \in Range(tunnels[m][k]) : conn[c].evt
    /\ \A r \in Handlers :
          req[r].state \in {"pending", "resolved"} => conn[req[r].parent].evt
    /\ \A c \in Conns : (conn[c].pc = "closed" /\ ~conn[c].evt) => conn[c].adds = 0

\* a request was issued through a registered connection
C3_Witness ==
    \E r \in Handlers :
        /\ req[r].state = "pending"
        /\ conn[req[r].parent].adds = 1
        /\ conn[req[r].parent].evt

\* C4: Release is called once for every successful Allocate when the handler
\* returns, on whatever path, and never without one
C4_AllocateReleased ==
    \A c \in Conns :
        /\ conn[c].releases <= conn[c].allocs
        /\ conn[c].pc = "closed" => conn[c].releases = conn[c].allocs

\* the handler returned after Allocate because the event could not be sent
C4_Witness ==
    \E c \in Conns :
        /\ conn[c].pc = "closed"
        /\ conn[c].allocs = 1
        /\ ~conn[c].evt
        /\ conn[c].releases = 1

\* C5: a connection whose handshake was still running when the 5 s timer
\* fired never has AddConnection or ResolveRequest invoked for it
C5_LateHandshakeInert ==
    \A c \in Conns :
        conn[c].timer = "fired" => conn[c].adds = 0 /\ conn[c].resolves = 0

\* C6: a V2 stream whose preamble fails, or whose success response is not
\* written, is closed and nothing is resolved with it; ResolveRequest is
\* invoked only after the success response, with the UUID of the preamble
C6_ResolveOnlyAfterPreamble ==
    \A s \in Streams :
        /\ strm[s].fail # "none" =>
              /\ strm[s].pc = "closed"
              /\ strm[s].resolves = 0
              /\ notifier[<<"s", s>>].closes > 0
              /\ \A r \in Handlers : req[r].stream # <<"s", s>>
        /\ strm[s].resolves > 0 =>
              /\ strm[s].wrote
              /\ strm[s].fail = "none"
              /\ strm[s].resolvedID = strm[s].uuid

\* a stream was closed because the success response could not be written
C6_Witness ==
    \E s \in Streams :
        /\ strm[s].pc = "closed"
        /\ strm[s].fail = "write"
        /\ strm[s].resolves = 0

\* C7: HandleHTTPConnection returns FailedToConnect when no byte was copied
\* back, whatever the pipes reported, and nil only with at least one byte and
\* a pipe error that is none or ConnClosed
C7_ZeroBytesFail ==
    \A h \in Handlers :
        (hnd[h].pc = "done" /\ hnd[h].kind = "http" /\ hnd[h].rc = "ok") =>
            /\ hnd[h].written = 0 => hnd[h].result = "FailedToConnect"
            /\ hnd[h].result = "nil" =>
                  hnd[h].written > 0 /\ hnd[h].egErr \in {"none", "ConnClosed"}

\* the pipes ended with ConnClosed and no byte copied back
C7_Witness ==
    \E h \in Handlers :
        /\ hnd[h].pc = "done"
        /\ hnd[h].kind = "http"
        /\ hnd[h].egErr = "ConnClosed"
        /\ hnd[h].written = 0
        /\ hnd[h].result = "FailedToConnect"

\* C8: when RequestConnection fails the handler's result follows IsKeyExists
\* (KeyIDNotFound) or is FailedToConnect (other errors), and it neither waits,
\* nor cancels, nor writes to a stream
C8_RequestErrors ==
    \A h \in Handlers :
        (hnd[h].pc = "done" /\ hnd[h].rc \in {"KeyIDNotFound", "error"}) =>
            /\ (hnd[h].rc = "KeyIDNotFound" /\ hnd[h].exists = "no") =>
                  hnd[h].result = "KeyIDNotFound"
            /\ (hnd[h].rc = "KeyIDNotFound" /\ hnd[h].exists = "yes") =>
                  hnd[h].result = "FailedToConnect"
            /\ (hnd[h].rc = "KeyIDNotFound" /\ hnd[h].exists = "err") =>
                  hnd[h].result \notin {"KeyIDNotFound", "FailedToConnect", "nil"}
            /\ hnd[h].rc = "error" => hnd[h].result = "FailedToConnect"
            /\ hnd[h].waits = 0
            /\ req[h].cancelCalls = 0
            /\ hnd[h].meta = "none" /\ hnd[h].initial = "none"

\* no control connection for the key, but the key exists
C8_Witness ==
    \E h \in Handlers :
        /\ hnd[h].pc = "done"
        /\ hnd[h].rc = "KeyIDNotFound"
        /\ hnd[h].exists = "yes"
        /\ hnd[h].result = "FailedToConnect"

\* C9: IsKeyExists(id) answers true exactly when a token with that ID is stored
C9_ExistsIffStored ==
    \A id \in TokenIDs :
        IsKeyExists(id, FALSE).res = (\E p \in stored : p[1] = id)

\* C10: Verify with a valid suffix: an error only for a store fault; (nil, nil)
\* when no token is stored and when the secret differs; a token, with the
\* base ID and the type of the suffix, only for the secret that was saved
C10_VerifyResults ==
    \A id \in TokenIDs, ch \in TypeChars :
        (last.op = "Verify" /\ last.id = id \o <<"-", ch>>) =>
            /\ last.err # "nil" <=> last.fault
            /\ (~last.fault /\ <<id, last.secret>> \notin stored) =>
                  last.tok = Nil /\ last.err = "nil"
            /\ last.tok # Nil =>
                  /\ <<id, last.secret>> \in stored
                  /\ last.tok = <<id, IF ch = "w" THEN "web" ELSE "tcp">>
            /\ (~last.fault /\ <<id, last.secret>> \in stored) => last.tok # Nil

\* Verify met a stored token whose secret differs
C10_Witness ==
    \E id \in TokenIDs, ch \in TypeChars :
        /\ last.op = "Verify"
        /\ last.id = id \o <<"-", ch>>
        /\ ~last.fault
        /\ \E p \in stored : p[1] = id /\ p[2] # last.secret
        /\ last.tok = Nil
        /\ last.err = "nil"

\* the type a suffix character stands for
TypeOf(ch) == IF ch = "w" THEN "web" ELSE "tcp"

\* C11: Verify with a key ID without suffix, or with a suffix other than w or
\* t, returns a nil token and InvalidTypeSuffix and reads nothing from the store
C11_BadSuffixNoRead ==
    (/\ last.op = "Verify"
     /\ \A id \in TokenIDs, ch \in TypeChars : last.id # id \o <<"-", ch>>) =>
        /\ last.tok = Nil
        /\ last.err = "InvalidTypeSuffix"
        /\ last.reads = 0

\* Verify was called with a suffix that is no type, for a stored token and
\* its secret
C11_Witness ==
    /\ last.op = "Verify"
    /\ \E p \in stored : last.id = p[1] \o <<"-", "x">> /\ last.secret = p[2]
    /\ last.err = "InvalidTypeSuffix"

\* C12: SaveToken on a stored ID returns DuplicateTokenID and changes neither
\* the store nor the secrets Verify accepts; on an absent ID it returns nil and
\* Verify accepts the saved secret afterwards
C12_SaveIfAbsent ==
    [][\A id \in TokenIDs :
         (last'.op = "SaveToken" /\ last'.id = id /\ ~last'.fault) =>
            IF \E p \in stored : p[1] = id
            THEN /\ last'.err = "DuplicateTokenID"
                 /\ db' = db
                 /\ \A k \in SuffixedIDs, sec \in Secrets :
                       Verify(k, sec, FALSE)' = Verify(k, sec, FALSE)
            ELSE /\ last'.err = "nil"
                 /\ db'[TokenKey(id)] = hashSecret(last'.secret, salt)
                 /\ \A ch \in TypeChars, sec \in Secrets :
                       sec = last'.secret =>
                          (Verify(id \o <<"-", ch>>, sec, FALSE).tok)'
                             = <<id, TypeOf(ch)>>]_vars

\* SaveToken met a stored token with another secret
C12_Witness ==
    /\ last.op = "SaveToken"
    /\ last.err = "DuplicateTokenID"
    /\ \E p \in stored : p[1] = last.id /\ p[2] # last.secret

\* C13: DeleteToken returns TokenNotFound exactly when nothing is stored under
\* the ID, leaving the store as it was, and nil when it removed the token;
\* after that a second DeleteToken finds nothing, Verify returns nil and
\* SaveToken succeeds
C13_DeleteToken ==
    [][\A id \in TokenIDs :
         (last'.op = "DeleteToken" /\ last'.id = id /\ ~last'.fault) =>
            IF \E p \in stored : p[1] = id
            THEN /\ last'.err = "nil"
                 /\ DeleteTokenResult(id, FALSE)' = "TokenNotFound"
                 /\ SaveTokenResult(id, FALSE)' = "nil"
                 /\ \A ch \in TypeChars, sec \in Secrets :
                       /\ (Verify(id \o <<"-", ch>>, sec, FALSE).tok)' = Nil
                       /\ (Verify(id \o <<"-", ch>>, sec, FALSE).err)' = "nil"
            ELSE /\ last'.err = "TokenNotFound"
                 /\ db' = db]_vars

\* a token was deleted while another one stays stored
C13_Witness ==
    /\ last.op = "DeleteToken"
    /\ last.err = "nil"
    /\ \A p \in stored : p[1] # last.id
    /\ stored # {}

\* C14: the stored string is "sc:" followed by a function of (secret, salt);
\* for every stored token Verify with its secret returns a token with its ID,
\* and Verify with any other secret returns nil
C14_SaveVerifyRoundTrip ==
    \A p \in stored, ch \in TypeChars :
        /\ SubSeq(db[TokenKey(p[1])], 1, Len(scryptPrefix)) = scryptPrefix
        /\ db[TokenKey(p[1])] = hashSecret(p[2], salt)
        /\ Verify(p[1] \o <<"-", ch>>, p[2], FALSE).tok = <<p[1], TypeOf(ch)>>
        /\ \A sec \in Secrets \ {p[2]} :
              Verify(p[1] \o <<"-", ch>>, sec, FALSE) = [tok |-> Nil, err |-> "nil", reads |-> 1]

\* two tokens with different secrets are stored
C14_Witness ==
    \E p, q \in stored : p[1] # q[1] /\ p[2] # q[2]

\* PipeSpec with the scheduling of the pipe's goroutines: a copy whose reader
\* has a byte, an EOF or a closed stream makes its step, the guard and the
\* handler run when they can
FairPipeSpec ==
    /\ PipeSpec
    /\ \A h \in Handlers :
          /\ WF_vars(CopyToUser(h))
          /\ WF_vars(PipeToDestEnd(h, "eof"))
          /\ WF_vars(PipeToDestEnd(h, "closed"))
          /\ WF_vars(PipeToSourceEnd(h, "eof"))
          /\ WF_vars(PipeToSourceEnd(h, "closed"))
          /\ WF_vars(Guard(h))
          /\ WF_vars(Finish(h))

\* C15: after the user's half-close pipeToDest has called CloseWrite on the
\* reverse stream and returned nil; the stream then stays open while the
\* response is copied unless a context is cancelled; a response that is not cut by a
\* fault or a cancellation is delivered whole; and the handler terminates once
\* both sides have finished sending
C15_HalfClose ==
    /\ [](\A h \in Handlers :
            /\ hnd[h].fin \in {"ok", "closed"} => hnd[h].dst = "nil"
            /\ (/\ hnd[h].pc = "pipe" /\ hnd[h].dst = "nil" /\ hnd[h].src = "run"
                /\ StreamClosed(h)) =>
                  hnd[h].guardBy \in {"ctx", "parent"}
            /\ (/\ hnd[h].pc = "done" /\ hnd[h].dst = "nil"
                /\ hnd[h].guardBy = "task" /\ hnd[h].srcEnd \in {"eof", "closed"}) =>
                  hnd[h].srcEnd = "eof" /\ hnd[h].written = hnd[h].sent)
    /\ \A h \in Handlers :
          (hnd[h].pc = "pipe" /\ hnd[h].userEOF /\ hnd[h].cliEOF) ~> (hnd[h].pc = "done")

\* the user has half-closed and CloseWrite was called while a response byte
\* is still in the reverse stream
C15_Witness ==
    \E h \in Handlers :
        /\ hnd[h].pc = "pipe"
        /\ hnd[h].fin = "ok"
        /\ hnd[h].src = "run"
        /\ ~hnd[h].cliEOF
        /\ hnd[h].copied < hnd[h].sent

Shared(t, v1) ==
    LET m == ManagerOf(t[2])
        carrier(r) == IF r = 1 /\ v1 THEN <<"c", 2>> ELSE <<"s", r>>
    IN  /\ tcpAllocator = "pool"
        /\ conn = [c \in Conns |->
               IF c = 1
               THEN [InitConn EXCEPT !.pc = "ping", !.key = t[1], !.ttype = t[2],
                                     !.v2 = TRUE, !.timer = "stopped", !.evt = TRUE,
                                     !.deferRelease = (t[2] = "tcp"),
                                     !.deferRemove = TRUE,
                                     !.allocs = IF t[2] = "tcp" THEN 1 ELSE 0,
                                     !.adds = 1]
               ELSE IF c = 2 /\ v1
               THEN [InitConn EXCEPT !.pc = "waitclose", !.key = t[1], !.ttype = t[2],
                                     !.timer = "stopped", !.bind = 1, !.resolves = 1]
               ELSE InitConn]
        /\ tunnels = [k \in Kinds |-> [i \in KeyIDs |->
                         IF k = m /\ i = t[1] THEN <<1>> ELSE <<>>]]
        /\ req = [r \in Handlers |->
               IF r \in {1, 2}
               THEN [InitReq EXCEPT !.state = "resolved", !.mng = m, !.key = t[1],
                                    !.parent = 1, !.stream = carrier(r),
                                    !.resolveCalls = 1, !.ord = r, !.sig = r]
               ELSE InitReq]
        /\ hnd = [h \in Handlers |->
               IF h \in {1, 2}
               THEN StartPipe([InitHnd EXCEPT
                                 !.key = t[1], !.rc = "ok",
                                 !.kind = IF m = "web" THEN "http" ELSE "tcp",
                                 !.waits = 1, !.stream = carrier(h), !.meta = "ok",
                                 !.initial = IF m = "web" THEN "ok" ELSE "none"])
               ELSE InitHnd]
        /\ strm = [s \in Streams |->
               IF s \in {1, 2} /\ carrier(s) = <<"s", s>>
               THEN [InitStrm EXCEPT !.pc = "waitclose", !.owner = 1, !.uuid = s,
                                     !.wrote = TRUE, !.resolves = 1, !.resolvedID = s]
               ELSE InitStrm]
        /\ notifier = [i \in StreamIDs |-> [closes |-> 0, panic |-> FALSE]]

SharedInit == AuthInit /\ EdgeInit /\ \E t \in Tokens, v1 \in BOOLEAN : Shared(t, v1)

\* no I/O fault and no end of data: the copies end when the stream is closed
SharedNext ==
    \/ \E h \in Handlers :
          \/ RequestCtxCancel(h)
          \/ PipeToDestEnd(h, "closed")
          \/ PipeToSourceEnd(h, "closed")
          \/ Guard(h)
          \/ Finish(h)
    \/ \E c \in Conns :
          \/ CtxCancel(c)
          \/ PingCtxDone(c)
          \/ PingFail(c)
          \/ WaitClose(c)
    \/ \E s \in Streams : WaitCloseStream(s)

\* two requests that share a control connection, from the start of their pipes
SharedSpec == SharedInit /\ [][SharedNext]_vars

\* SharedSpec with the guard goroutine and the keepalive loop scheduled
FairSharedSpec ==
    /\ SharedSpec
    /\ \A h \in Handlers :
          /\ WF_vars(Guard(h))
          /\ WF_vars(PipeToDestEnd(h, "closed"))
          /\ WF_vars(PipeToSourceEnd(h, "closed"))
          /\ WF_vars(Finish(h))
    /\ \A c \in Conns : WF_vars(PingCtxDone(c))

\* C17: cancelling the context of request h, and the guard's reaction to it,
\* change nothing but handler h and its own reverse stream: the control
\* connection (registration, context, endpoint) and the other requests and
\* streams stay as they are
C17_RequestCancelIsLocal ==
    [][\A h \in Handlers :
         /\ (~hnd[h].ctxDone /\ hnd'[h].ctxDone) =>
               /\ conn' = conn /\ tunnels' = tunnels /\ notifier' = notifier
               /\ tcpAllocator' = tcpAllocator
               /\ \A g \in Handlers \ {h} : hnd'[g] = hnd[g]
         /\ (hnd[h].guard = "wait" /\ hnd'[h].guard = "done" /\ hnd'[h].guardBy = "ctx") =>
               /\ notifier'[hnd[h].stream].closes > 0
               /\ \A n \in StreamIDs \ {hnd[h].stream} : notifier'[n] = notifier[n]
               /\ conn' = conn /\ tunnels' = tunnels
               /\ tcpAllocator' = tcpAllocator
               /\ \A g \in Handlers \ {h} : hnd'[g] = hnd[g]]_vars

\* request 1 was cancelled and its stream closed while request 2 is in flight
\* on the same live, registered tcp control connection
C17_Witness ==
    /\ hnd[1].guardBy = "ctx"
    /\ notifier[req[1].stream].closes > 0
    /\ hnd[2].pc = "pipe" /\ hnd[2].guard = "wait"
    /\ req[2].parent = req[1].parent
    /\ notifier[req[2].stream].closes = 0
    /\ conn[1].pc = "ping" /\ ~conn[1].ctxDone
    /\ conn[1].allocs = 1 /\ conn[1].releases = 0
    /\ 1 \in Range(tunnels["tcp"][conn[1].key])

\* C18: once a control connection's context is cancelled, the guard of every
\* request in flight through it closes that request's stream, and the
\* connection's handler returns: removed from its manager, endpoint released
C18_ControlCancelCascades ==
    /\ \A h \in Handlers :
          (hnd[h].pc = "pipe" /\ conn[req[h].parent].ctxDone)
             ~> (/\ req[h].state = "resolved"
                 /\ hnd[h].guardBy # "none"
                 /\ notifier[req[h].stream].closes > 0)
    /\ \A c \in Conns :
          (conn[c].pc = "ping" /\ conn[c].ctxDone)
             ~> (/\ conn[c].pc = "closed"
                 /\ conn[c].removes = conn[c].adds
                 /\ conn[c].releases = conn[c].allocs
                 /\ \A m \in Kinds, k \in KeyIDs : c \notin Range(tunnels[m][k]))

\* the context of a tcp control connection was cancelled, the guards of both
\* requests closed their streams for that reason and the handler returned
C18_Witness ==
    /\ conn[1].pc = "closed" /\ conn[1].ctxDone
    /\ conn[1].removes = 1 /\ conn[1].releases = 1
    /\ \A h \in {1, 2} :
          hnd[h].guardBy = "parent" /\ notifier[req[h].stream].closes > 0

\* the keepalive loop is scheduled: once srvConn.Context() is done its select
\* takes the Done branch
KeepaliveSpec == Spec /\ \A c \in Conns : WF_vars(PingCtxDone(c))

\* the tunnel sets a control connection is a member of
MemberOf(c) == {<<m, k>> \in Kinds \X KeyIDs : c \in Range(tunnels[m][k])}

\* C19: a Registered control connection is in the tunnel set of its key for
\* as long as its keepalive loop runs; the step that leaves the loop (ping
\* failure or context done) removes exactly that connection from exactly that
\* set; a connection whose context is done does leave the loop; and every
\* AddConnection of a returned handler is matched by one RemoveConnection
C19_KeepaliveRemoves ==
    /\ [](\A c \in Conns :
            /\ conn[c].pc = "ping" =>
                  /\ MemberOf(c) = {<<ManagerOf(conn[c].ttype), conn[c].key>>}
                  /\ conn[c].adds = 1 /\ conn[c].removes = 0
            /\ conn[c].pc # "ping" => MemberOf(c) = {}
            /\ conn[c].pc = "closed" => conn[c].removes = conn[c].adds
            /\ conn[c].removes <= conn[c].adds /\ conn[c].adds <= 1)
    /\ [][\A c \in Conns :
            (conn[c].pc = "ping" /\ conn'[c].pc # "ping") =>
                /\ conn'[c].pc = "closed"
                /\ conn'[c].removes = conn[c].removes + 1
                /\ tunnels' = RemoveConnection(ManagerOf(conn[c].ttype), conn[c].key, c)
                /\ \A d \in Conns \ {c} : MemberOf(d)' = MemberOf(d)]_vars
    /\ \A c \in Conns :
          (conn[c].pc = "ping" /\ conn[c].ctxDone)
              ~> (conn[c].pc = "closed" /\ conn[c].removes = 1)

\* a connection left the keepalive loop and was removed while another
\* connection is still registered
C19_Witness ==
    \E c, d \in Conns :
        /\ c # d
        /\ conn[c].pc = "closed" /\ conn[c].adds = 1 /\ conn[c].removes = 1
        /\ conn[d].pc = "ping"
        /\ MemberOf(d) # {}

\* C20: an edge handler never returns ConnClosed: what it returns is nil,
\* KeyIDNotFound, FailedToConnect, a store fault or a non-close I/O error; an
\* I/O error is returned only by the HTTP handler and is the pipe's own
\* first error; a pipe that ended on a closed or reset connection after
\* response bytes were written returns nil
C20_ConnClosedNotReturned ==
    \A h \in Handlers :
        /\ hnd[h].result \in {"none", "nil", "KeyIDNotFound", "FailedToConnect",
                              "StoreFault", "IOError"}
        /\ hnd[h].result # "ConnClosed"
        /\ hnd[h].result = "IOError" =>
              hnd[h].kind = "http" /\ hnd[h].egErr = "IOError" /\ hnd[h].written > 0
        /\ (hnd[h].pc = "done" /\ hnd[h].egErr = "ConnClosed"
                /\ (hnd[h].written > 0 \/ hnd[h].kind = "tcp")) =>
              hnd[h].result = "nil"

\* the HTTP pipe ended with ConnClosed after the response was written
C20_Witness ==
    \E h \in Handlers :
        /\ hnd[h].pc = "done"
        /\ hnd[h].kind = "http"
        /\ hnd[h].egErr = "ConnClosed"
        /\ hnd[h].written > 0
        /\ hnd[h].result = "nil"

\* a state Spec reaches: the V2 control connection of token t is registered
\* and in its keepalive loop; no request was made yet
Registered(t) ==
    /\ tcpAllocator = "pool"
    /\ conn = [c \in Conns |->
           IF c = 1
           THEN [InitConn EXCEPT !.pc = "ping", !.key = t[1], !.ttype = t[2],
                                 !.v2 = TRUE, !.timer = "stopped", !.evt = TRUE,
                                 !.deferRelease = (t[2] = "tcp"),
                                 !.deferRemove = TRUE,
                                 !.allocs = IF t[2] = "tcp" THEN 1 ELSE 0,
                                 !.adds = 1]
           ELSE InitConn]
    /\ tunnels = [k \in Kinds |-> [i \in KeyIDs |->
                     IF k = ManagerOf(t[2]) /\ i = t[1] THEN <<1>> ELSE <<>>]]
    /\ req = [r \in Handlers |-> InitReq]
    /\ hnd = [h \in Handlers |-> InitHnd]
    /\ strm = [s \in Streams |-> InitStrm]
    /\ notifier = [i \in StreamIDs |-> [closes |-> 0, panic |-> FALSE]]

MuxInit == AuthInit /\ EdgeInit /\ \E t \in Tokens : Registered(t)

\* concurrent end-user requests through one V2 control connection, up to the
\* delivery of their streams
MuxNext ==
    \/ \E h \in Handlers :
          \/ RequestTunnel(h)
          \/ RequestCtxCancel(h)
          \/ WaitConnOk(h)
          \/ WaitConnErr(h)
          \/ Cancel(h)
    \/ \E s \in Streams :
          \/ AcceptStream(s)
          \/ HandleV2Stream(s)
          \/ WaitCloseStream(s)
    \/ \E c \in Conns : PingFail(c)

MuxSpec == MuxInit /\ [][MuxNext]_vars

ResolvesNow(id, n, m) ==
    \/ \E c \in Conns :
          /\ conn[c].pc = "bound" /\ conn'[c].pc = "waitclose"
          /\ id = conn[c].bind /\ n = <<"c", c>> /\ m = ManagerOf(conn[c].ttype)
    \/ \E s \in Streams :
          /\ strm[s].pc = "preamble" /\ strm'[s].pc = "waitclose"
          /\ id = strm'[s].uuid /\ n = <<"s", s>>
          /\ m = ManagerOf(conn[strm[s].owner].ttype)

\* C22: ResolveRequest(id, stream) for an id that is cancelled, failed,
\* already resolved or unknown to the manager changes no request and closes
\* the stream; for a pending id it delivers the stream to that request only
\* and leaves it open; no stream is ever held by two requests
C22_LateResolveClosesStream ==
    /\ [][\A id \in BindIDs, n \in StreamIDs, m \in Kinds :
            ResolvesNow(id, n, m) =>
                IF id \in Handlers /\ req[id].state = "pending" /\ req[id].mng = m
                THEN /\ req'[id].state = "resolved" /\ req'[id].stream = n
                     /\ \A r \in Handlers \ {id} : req'[r] = req[r]
                     /\ notifier'[n].closes = notifier[n].closes
                ELSE /\ \A r \in Handlers :
                           /\ req'[r].state = req[r].state
                           /\ req'[r].stream = req[r].stream
                     /\ notifier'[n].closes > 0]_vars
    /\ [](\A a, b \in Handlers :
            (a # b /\ req[a].stream # NoStream) => req[a].stream # req[b].stream)
    /\ [](\A r \in Handlers : req[r].state = "cancelled" => req[r].stream = NoStream)

\* a stream bound to a cancelled request was passed to ResolveRequest and
\* closed, while another request holds its own stream
C22_Witness ==
    \E a, b \in Handlers, s \in Streams :
        /\ req[a].state = "cancelled" /\ req[a].cancelCalls > 0
        /\ req[a].resolveCalls > 0
        /\ strm[s].resolvedID = a
        /\ notifier[<<"s", s>>].closes > 0
        /\ req[b].state = "resolved"

\* the Service as New() builds it: the no-op TCP endpoint allocator
DefaultInit ==
    /\ tcpAllocator = "noop"
    /\ conn = [c \in Conns |-> InitConn]
    /\ tunnels = [m \in Kinds |-> [k \in KeyIDs |-> <<>>]]
    /\ req = [r \in Handlers |-> InitReq]
    /\ hnd = [h \in Handlers |-> InitHnd]
    /\ strm = [s \in Streams |-> InitStrm]
    /\ notifier = [n \in StreamIDs |-> [closes |-> 0, panic |-> FALSE]]
    /\ AuthInit
    /\ EdgeInit

\* reverse connections handled by a Service without a TCP edge server
DefaultSpec == DefaultInit /\ [][ConnNext]_vars

\* C23: with the no-op allocator a Registered connection with a tcp token
\* gets no further than Allocate: its handler returns the allocation error
\* in that step, no event is sent to it, it is never added to a manager and
\* the tcp manager stays empty
C23_NoopRejectsTcp ==
    /\ [](\A c \in Conns :
            /\ conn[c].ttype = "tcp" => conn[c].pc \in {"role", "alloc", "bound", "waitclose"}
            /\ conn[c].ret = "errAllocate" =>
                  conn[c].pc = "closed" /\ ~conn[c].evt /\ conn[c].adds = 0
                  /\ conn[c].allocs = 0)
    /\ [](\A k \in KeyIDs : tunnels["tcp"][k] = <<>>)
    /\ [][\A c \in Conns :
            (conn[c].pc = "alloc" /\ conn[c].ttype = "tcp" /\ conn'[c] # conn[c]) =>
                /\ conn'[c].pc = "closed" /\ conn'[c].ret = "errAllocate"
                /\ tunnels' = tunnels]_vars

\* a tcp-token connection was rejected at Allocate while a web-token
\* connection is registered
C23_Witness ==
    \E c, d \in Conns :
        /\ conn[c].pc = "closed" /\ conn[c].ret = "errAllocate"
        /\ conn[d].pc = "ping" /\ conn[d].ttype = "web"

C25_StreamsIndependent ==
    /\ \A r \in Handlers, s \in Streams :
          req[r].stream = <<"s", s>> =>
              /\ strm[s].uuid = r /\ strm[s].resolvedID = r
              /\ strm[s].resolves = 1
              /\ \A q \in Handlers \ {r} : req[q].stream # <<"s", s>>
    /\ \A s \in Streams :
          (/\ strm[s].pc = "idle"
           /\ s > 1 => strm[s - 1].pc # "idle"
           /\ \E c \in Conns : conn[c].pc = "ping" /\ conn[c].v2 /\ ~conn[c].ctxDone) =>
              ENABLED AcceptStream(s)
    /\ \A s \in Streams : strm[s].pc = "preamble" => ENABLED HandleV2Stream(s)

\* the second request, created later, holds its stream while the first
\* stream is still in its preamble and the first request still waits
C25_Witness ==
    /\ strm[1].pc = "preamble"
    /\ req[1].state = "pending"
    /\ strm[2].pc = "waitclose" /\ strm[2].uuid = 2
    /\ req[2].state = "resolved" /\ req[2].stream = <<"s", 2>>

\* a header value without its port
WithoutPort(x) == IF IndexOf(x, ":") = 0 THEN x ELSE SubSeq(x, 1, IndexOf(x, ":") - 1)

\* x is the domain d or ends in "." d
InDomain(x, d) ==
    \/ x = d
    \/ /\ Len(x) > Len(d)
       /\ x[Len(x) - Len(d)] = "."
       /\ \A i \in 1..Len(d) : x[Len(x) - Len(d) + i] = d[i]

C27_NoSubdomainIs404 ==
    mw.served =>
        /\ (\/ mw.effective = <<>>
            \/ mw.effective = mw.domain
            \/ mw.effective = <<".">> \o mw.domain) =>
              mw.status = 404 /\ ~mw.next
        /\ mw.next => mw.keyID # <<>>

\* ------------------------------------------------ client: handleConn
\* the server sees the client's end of the reverse stream closed
CliReturn(h) == [hnd EXCEPT ![h].cliEOF = TRUE]

\* wrapConn(conn): a V2 reverse stream is a yamux stream, which has no
\* CloseWrite and is wrapped; a V1 reverse connection may have its own
NativeChoices(n) == IF n[1] = "s" THEN {FALSE} ELSE BOOLEAN

Deferred_RevOnly(c) == [c EXCEPT !.pc = "done", !.revClosed = TRUE]

\* handleConn returns: the deferred conn.Close() runs, and the deferred
\* destConn.Close() when it was registered, which is after a successful dial
Deferred(c) ==
    [c EXCEPT !.pc = "done", !.revClosed = TRUE,
              !.destClosed = @ \/ c.dial = "ok"]

\* the deferred s.wg.Done() of the goroutine that ran handleConn
WgDone == [run EXCEPT !.wg = @ - 1]

\* meta.ReadData(conn, &connMeta): succeeds once the server wrote the record
CliReadMeta(h) ==
    /\ cli[h].pc = "readmeta"
    /\ \E ok \in BOOLEAN :
         IF ok
         THEN /\ hnd[h].meta = "ok"
              /\ cli' = [cli EXCEPT ![h].pc = "dial", ![h].meta = "ok"]
              /\ UNCHANGED <<hnd, run>>
         ELSE /\ cli' = [cli EXCEPT ![h] = Deferred([@ EXCEPT !.meta = "fail"])]
              /\ hnd' = CliReturn(h)
              /\ run' = WgDone
    /\ UNCHANGED <<tcpAllocator, conn, tunnels, req, strm, notifier, authVars, connectionTimeout, mw>>

\* d.DialContext(ctx, "tcp", s.cfg.DestAddr): fails when ctx is done; on
\* success both pipeConn tasks are started
CliDial(h) ==
    /\ cli[h].pc = "dial"
    /\ \E ok \in BOOLEAN :
         IF ok
         THEN /\ ~run.ctxDone
              /\ cli' = [cli EXCEPT ![h].pc = "pipe", ![h].dial = "ok",
                                    ![h].toDest = "run", ![h].toRev = "run"]
              /\ UNCHANGED <<hnd, run>>
         ELSE /\ cli' = [cli EXCEPT ![h] = Deferred([@ EXCEPT !.dial = "fail"])]
              /\ hnd' = CliReturn(h)
              /\ run' = WgDone
    /\ UNCHANGED <<tcpAllocator, conn, tunnels, req, strm, notifier, authVars, connectionTimeout, mw>>

\* pipeConn(revConn, destConn) forwards a byte the server wrote after the
\* meta record: of the initial request, or piped from the end user
CliForward(h) ==
    /\ cli[h].pc = "pipe"
    /\ cli[h].toDest = "run"
    /\ cli[h].fwd < MaxBytes
    /\ hnd[h].initial = "ok" \/ hnd[h].dst # "none"
    /\ cli' = [cli EXCEPT ![h].fwd = @ + 1]
    /\ UNCHANGED <<coreVars, authVars, connectionTimeout, mw, run>>

\* how io.Copy ends in pipeConn: the source ended, or an I/O error
CliCopyEnds == {"eof", "err"}

pipeConnClosesWrite_Always(e) == TRUE

\* pipeConn: dst.CloseWrite() is reached when io.Copy returned no error
pipeConnClosesWrite(e) == e = "eof"

\* pipeConn(ctx, revConn, destConn): destConn is the dialled TCP connection,
\* whose CloseWrite is its own. cwOk: CloseWrite returned no error. A non-nil
\* return makes the errgroup cancel its context
PipeConnToDest(h) ==
    /\ cli[h].pc = "pipe"
    /\ cli[h].toDest = "run"
    /\ \E e \in CliCopyEnds, cwOk \in BOOLEAN :
         LET cw == pipeConnClosesWrite(e)
         IN  cli' = [cli EXCEPT
                       ![h].toDest = e,
                       ![h].cwDest = IF cw THEN @ + 1 ELSE @,
                       ![h].egErr = @ \/ e = "err" \/ (cw /\ ~cwOk)]
    /\ UNCHANGED <<coreVars, authVars, connectionTimeout, mw, run>>

\* pipeConn(ctx, destConn, revConn): CloseWrite of a wrapped reverse stream
\* is connWrapper.CloseWrite, which calls Close
PipeConnToRev(h) ==
    /\ cli[h].pc = "pipe"
    /\ cli[h].toRev = "run"
    /\ \E e \in CliCopyEnds, cwOk \in BOOLEAN :
         LET cw == pipeConnClosesWrite(e)
         IN  /\ cli' = [cli EXCEPT
                          ![h].toRev = e,
                          ![h].cwRev = IF cw THEN @ + 1 ELSE @,
                          ![h].revClosed = @ \/ (cw /\ ~cli[h].native),
                          ![h].egErr = @ \/ e = "err" \/ (cw /\ ~cwOk)]
             /\ hnd' = IF cw THEN CliReturn(h) ELSE hnd
    /\ UNCHANGED <<tcpAllocator, conn, tunnels, req, strm, notifier, authVars,
                   connectionTimeout, mw, run>>

\* the goroutine of handleConn that waits for the errgroup's context: done
\* when Run's context is, when a pipeConn returned an error, or when
\* eg.Wait() returned
CliGuard(h) ==
    /\ cli[h].dial = "ok"
    /\ ~cli[h].guard
    /\ run.ctxDone \/ cli[h].egErr \/ cli[h].pc = "done"
    /\ cli' = [cli EXCEPT ![h].guard = TRUE, ![h].destClosed = TRUE,
                          ![h].revClosed = TRUE]
    /\ hnd' = CliReturn(h)
    /\ UNCHANGED <<tcpAllocator, conn, tunnels, req, strm, notifier, authVars,
                   connectionTimeout, mw, run>>

\* eg.Wait() returns once both pipeConn tasks returned, and handleConn returns
CliClose(h) ==
    /\ cli[h].pc = "pipe"
    /\ cli[h].toDest # "run" /\ cli[h].toRev # "run"
    /\ cli' = [cli EXCEPT ![h] = Deferred(@)]
    /\ hnd' = CliReturn(h)
    /\ run' = WgDone
    /\ UNCHANGED <<tcpAllocator, conn, tunnels, req, strm, notifier, authVars, connectionTimeout, mw>>

\* the reverse stream of request 1 was delivered on both sides: the edge
\* handler is about to write the meta record, the client's handleConn, started
\* by Run's accept loop, to read it
ClientInit ==
    /\ AuthInit
    /\ mw = NoServe @@ [domain |-> <<"e", ".", "c">>]
    /\ \E t \in Tokens, v2 \in BOOLEAN : Delivered(t, v2)
    /\ \E b \in BOOLEAN :
         /\ b \in NativeChoices(hnd[1].stream)
         /\ cli = [h \in Handlers |->
                      IF h = 1
                      THEN [InitCli EXCEPT !.pc = "readmeta", !.native = b]
                      ELSE InitCli]
    /\ run = [InitRun EXCEPT !.pc = "accept", !.wg = 1]
    /\ TimeoutInit

ClientNext ==
    \E h \in Handlers :
        \/ WriteMeta(h)
        \/ WriteInitial(h)
        \/ RequestCtxCancel(h)
        \/ PipeToDest(h)
        \/ PipeToSource(h)
        \/ Guard(h)
        \/ Finish(h)
        \/ CliReadMeta(h)
        \/ CliDial(h)
        \/ CliForward(h)
        \/ PipeConnToDest(h)
        \/ PipeConnToRev(h)
        \/ CliGuard(h)
        \/ CliClose(h)

ClientSpec == ClientInit /\ [][ClientNext]_vars

\* ------------------------------------------------------- client: Run
\* Run's context is cancelled
RunCtxCancel ==
    /\ run.pc # "idle"
    /\ ~run.ctxDone
    /\ run' = [run EXCEPT !.ctxDone = TRUE]
    /\ UNCHANGED <<coreVars, authVars, connectionTimeout, mw, cli>>

\* the goroutine of Run: <-ctx.Done(), then listener.Close()
ListenerClose ==
    /\ run.ctxDone
    /\ ~run.lnClosed
    /\ run' = [run EXCEPT !.lnClosed = TRUE]
    /\ UNCHANGED <<coreVars, authVars, connectionTimeout, mw, cli>>

\* listenAndServe: Accept returns the reverse stream of request h; s.wg.Add(1)
\* and a goroutine that runs handleConn on it
ListenerAccept(h) ==
    /\ run.pc = "accept"
    /\ ~run.lnClosed
    /\ cli[h].pc = "idle"
    /\ hnd[h].stream # NoStream
    /\ \E b \in NativeChoices(hnd[h].stream) :
         cli' = [cli EXCEPT ![h].pc = "readmeta", ![h].native = b]
    /\ run' = [run EXCEPT !.wg = @ + 1]
    /\ UNCHANGED <<coreVars, authVars, connectionTimeout, mw>>

\* listenAndServe: Accept returns an error, revdial.ErrListenerClosed
\* ("closed") once the listener was closed, and the loop ends; Run then
\* stands in its deferred s.wg.Wait()
AcceptError(e) ==
    /\ run.pc = "accept"
    /\ e = "closed" => run.lnClosed
    /\ run' = [run EXCEPT !.pc = "wait", !.err = e]
    /\ UNCHANGED <<coreVars, authVars, connectionTimeout, mw, cli>>

RunResult_First(err, wg) == [ret |-> IF err = "closed" THEN "nil" ELSE "err", ready |-> TRUE]

\* Run: what it returns, and when: after the deferred s.wg.Wait()
RunResult(err, wg) ==
    [ret |-> IF err = "closed" THEN "nil" ELSE "err", ready |-> wg = 0]

RunReturn ==
    /\ run.pc = "wait"
    /\ RunResult(run.err, run.wg).ready
    /\ run' = [run EXCEPT !.pc = "done", !.ret = RunResult(run.err, run.wg).ret]
    /\ UNCHANGED <<coreVars, authVars, connectionTimeout, mw, cli>>

\* the client is connected and two reverse streams were opened for it
RunInit ==
    /\ AuthInit
    /\ mw = NoServe @@ [domain |-> <<"e", ".", "c">>]
    /\ \E t \in Tokens, v1 \in BOOLEAN : Shared(t, v1)
    /\ cli = [h \in Handlers |-> InitCli]
    /\ run = [InitRun EXCEPT !.pc = "accept"]
    /\ TimeoutInit

RunNext ==
    \/ RunCtxCancel
    \/ ListenerClose
    \/ \E e \in {"closed", "other"} : AcceptError(e)
    \/ RunReturn
    \/ \E h \in Handlers :
          \/ ListenerAccept(h)
          \/ CliReadMeta(h)
          \/ CliDial(h)
          \/ CliForward(h)
          \/ PipeConnToDest(h)
          \/ PipeConnToRev(h)
          \/ CliGuard(h)
          \/ CliClose(h)

\* the client's accept loop and its handleConn tasks
RunSpec == RunInit /\ [][RunNext]_vars

\* RunSpec with the goroutine of Run scheduled and the blocked Accept
\* returning once the listener is closed
FairRunSpec ==
    /\ RunSpec
    /\ WF_vars(ListenerClose)
    /\ WF_vars(AcceptError("closed"))

\* C31: when handleConn has returned, the reverse stream is closed, and so is
\* the local connection if it was dialled; after a failed read of the meta
\* record the local service was not dialled
C31_HandleConnCloses ==
    \A h \in Handlers :
        /\ cli[h].pc = "done" =>
              /\ cli[h].revClosed
              /\ cli[h].dial = "ok" => cli[h].destClosed
        /\ cli[h].meta = "fail" => cli[h].pc = "done" /\ cli[h].dial = "none"
        /\ cli[h].destClosed => cli[h].dial = "ok"

\* handleConn returned after its pipes ended with Run's context cancelled
C31_Witness ==
    \E h \in Handlers :
        /\ cli[h].pc = "done" /\ cli[h].dial = "ok"
        /\ run.ctxDone
        /\ cli[h].revClosed /\ cli[h].destClosed

\* C32: a pipeConn task called CloseWrite on its destination only if its copy
\* ended without error, and at most once; no byte is forwarded to the local
\* service after its CloseWrite; CloseWrite of a wrapped reverse stream closes
\* it, while that of a reverse connection with its own CloseWrite does not
C32_CloseWriteAfterCopy ==
    /\ [](\A h \in Handlers :
            /\ cli[h].cwDest = (IF cli[h].toDest = "eof" THEN 1 ELSE 0)
            /\ cli[h].cwRev = (IF cli[h].toRev = "eof" THEN 1 ELSE 0)
            /\ (cli[h].cwRev = 1 /\ ~cli[h].native) => cli[h].revClosed
            /\ (cli[h].native /\ cli[h].pc = "pipe" /\ ~cli[h].guard)
                  => ~cli[h].revClosed)
    /\ [][\A h \in Handlers :
            cli[h].cwDest = 1 => cli'[h].fwd = cli[h].fwd]_vars

\* both copies of one handleConn ended, one cleanly after a forwarded byte and
\* one with an error
C32_Witness ==
    \E h \in Handlers :
        /\ cli[h].toDest = "eof" /\ cli[h].fwd > 0 /\ cli[h].cwDest = 1
        /\ cli[h].toRev = "err" /\ cli[h].cwRev = 0

\* C33: Run returns only when no handleConn task is running; it returns nil
\* exactly when Accept reported the closed listener, which happens only after
\* the context was cancelled, and an error for any other Accept error; once
\* the context is cancelled the listener is closed and the accept loop ends
C33_RunWaitsForHandlers ==
    /\ [](/\ run.pc = "done" =>
                /\ \A h \in Handlers : cli[h].pc \in {"idle", "done"}
                /\ run.wg = 0
                /\ run.ret = (IF run.err = "closed" THEN "nil" ELSE "err")
          /\ run.err = "closed" => run.ctxDone /\ run.lnClosed
          /\ run.wg = Cardinality({h \in Handlers : cli[h].pc \notin {"idle", "done"}}))
    /\ (run.ctxDone ~> (run.lnClosed /\ run.pc \in {"wait", "done"}))

\* Run returned nil after a handleConn task that was in flight when the
\* context was cancelled
C33_Witness ==
    /\ run.pc = "done" /\ run.ret = "nil"
    /\ \E h \in Handlers : cli[h].pc = "done" /\ cli[h].dial = "ok" /\ cli[h].guard

\* C28: on the server the initial request is written only after the meta
\* record, and only by the HTTP handler; the pipe tasks start only after
\* every write before them succeeded; a failed write ends the handler with
\* FailedToConnect and no pipe task. On the client the meta record is read
\* before the local service is dialled, which is before any byte is
\* forwarded, and what it read as meta is what the server wrote first
C28_MetaFirst ==
    \A h \in Handlers :
        /\ hnd[h].initial # "none" => hnd[h].meta = "ok" /\ hnd[h].kind = "http"
        /\ hnd[h].dst # "none" =>
              /\ hnd[h].meta = "ok"
              /\ hnd[h].kind = "http" => hnd[h].initial = "ok"
        /\ (hnd[h].meta = "fail" \/ hnd[h].initial = "fail") =>
              /\ hnd[h].pc = "done" /\ hnd[h].result = "FailedToConnect"
              /\ hnd[h].dst = "none"
        /\ cli[h].meta = "ok" => hnd[h].meta = "ok"
        /\ cli[h].dial # "none" => cli[h].meta = "ok"
        /\ cli[h].fwd > 0 => cli[h].meta = "ok" /\ cli[h].dial = "ok"
        /\ cli[h].meta = "fail" => cli[h].dial = "none" /\ cli[h].fwd = 0

\* the HTTP handler wrote meta and the initial request and started its pipes;
\* the client read the meta, dialled and forwarded a byte
C28_Witness ==
    \E h \in Handlers :
        /\ hnd[h].kind = "http"
        /\ hnd[h].meta = "ok" /\ hnd[h].initial = "ok"
        /\ hnd[h].pc = "pipe"
        /\ cli[h].meta = "ok" /\ cli[h].dial = "ok" /\ cli[h].fwd > 0

\* C29: a handler that is past authentication holds a token Verify accepted;
\* while the handshake runs nothing was allocated, generated, sent, added or
\* resolved for the connection; the return that ends a handshake (failed
\* authentication, Process() error, or a state that is neither Registered nor
\* Bound) touches no manager, request, stream or allocator, and is an error
\* only in the last case
C29_FailedHandshakeInert ==
    /\ [](\A c \in Conns :
            /\ conn[c].pc \notin {"idle", "auth", "closed"} =>
                  <<conn[c].key, conn[c].ttype>> \in Tokens
            /\ conn[c].pc \in {"auth", "role"} =>
                  /\ conn[c].adds = 0 /\ conn[c].resolves = 0 /\ conn[c].allocs = 0
                  /\ ~conn[c].evt /\ MemberOf(c) = {}
            /\ conn[c].ret = "errState" =>
                  /\ conn[c].adds = 0 /\ conn[c].resolves = 0 /\ conn[c].allocs = 0
                  /\ ~conn[c].evt)
    /\ [][\A c \in Conns :
            (conn[c].pc \in {"auth", "role"} /\ conn'[c].pc = "closed") =>
                /\ tunnels' = tunnels /\ req' = req /\ notifier' = notifier
                /\ hnd' = hnd /\ strm' = strm /\ tcpAllocator' = tcpAllocator
                /\ conn'[c].adds = 0 /\ conn'[c].resolves = 0 /\ conn'[c].allocs = 0
                /\ conn'[c].removes = 0 /\ conn'[c].releases = 0 /\ ~conn'[c].evt
                /\ conn'[c].ret \in {"nil", "errState"}
                /\ conn[c].pc = "auth" => conn'[c].ret = "nil"]_vars

\* one handshake failed and another ended in an unexpected state
C29_Witness ==
    \E c, d \in Conns :
        /\ conn[c].pc = "closed" /\ conn[c].ret = "nil"
        /\ conn[c].adds = 0 /\ conn[c].resolves = 0
        /\ conn[d].pc = "closed" /\ conn[d].ret = "errState"

\* C30: a handler blocked in WaitClose (Bound branch, handleV2Stream) leaves
\* it only when Close was called on its notifier or its context is done; and
\* once Close was called on a notifier, a handler that is or comes to be in
\* WaitClose on it is not blocked
C30_WaitCloseUntilClosed ==
    /\ [][/\ \A c \in Conns :
               (conn[c].pc = "waitclose" /\ conn'[c].pc # "waitclose") =>
                   /\ notifier[<<"c", c>>].closes > 0 \/ conn[c].ctxDone
                   /\ conn'[c].pc = "closed" /\ conn'[c].ret = "nil"
          /\ \A s \in Streams :
               (strm[s].pc = "waitclose" /\ strm'[s].pc # "waitclose") =>
                   /\ notifier[<<"s", s>>].closes > 0 \/ conn[strm[s].owner].ctxDone
                   /\ strm'[s].pc = "returned"]_vars
    /\ [](/\ \A c \in Conns :
               (conn[c].pc = "waitclose" /\ notifier[<<"c", c>>].closes > 0) =>
                   ENABLED WaitClose(c)
          /\ \A s \in Streams :
               (strm[s].pc = "waitclose" /\ notifier[<<"s", s>>].closes > 0) =>
                   ENABLED WaitCloseStream(s))

\* the Bound handler returned from WaitClose because the stream it had
\* resolved the request with was closed, its context still live
C30_Witness ==
    \E c \in Conns, r \in Handlers :
        /\ conn[c].pc = "closed" /\ conn[c].resolves = 1 /\ ~conn[c].ctxDone
        /\ req[r].state = "resolved" /\ req[r].stream = <<"c", c>>
        /\ notifier[<<"c", c>>].closes > 0



\* ------------------------------------------------- timeoutContext inputs
Timeouts == {-1, 0, 5}

TimeoutSpecInit ==
    /\ CoreInit
    /\ AuthInit
    /\ mw = NoServe @@ [domain |-> <<"e", ".", "c">>]
    /\ CliInit
    /\ connectionTimeout \in Timeouts

\* HandleReverseConn with timeoutContext given any timeout
TimeoutSpec == TimeoutSpecInit /\ [][ConnNext]_vars

\* C34: a fired timer cancelled the context; there is a timer exactly when
\* the timeout is positive; once the cancel function was called, or with no
\* timer, the timer never fires, and the context is cancelled only by the
\* cancellation of its parent
C34_TimeoutBoundsHandshake ==
    /\ [](\A c \in Conns :
            /\ conn[c].timer = "fired" => conn[c].ctxDone
            /\ conn[c].pc # "idle" => (conn[c].timer = "off" <=> connectionTimeout <= 0))
    /\ [][\A c \in Conns :
            (conn[c].pc # "idle" /\ (conn[c].pc \notin {"auth", "role"} \/ conn[c].timer = "off")) =>
                /\ conn'[c].timer = conn[c].timer
                /\ conn'[c].ctxDone # conn[c].ctxDone => CtxCancel(c)]_vars

\* a control connection is registered and in its keepalive loop, the timer
\* stopped and the context not cancelled
C34_Witness ==
    \E c \in Conns :
        /\ connectionTimeout > 0
        /\ conn[c].pc = "ping"
        /\ conn[c].timer = "stopped"
        /\ ~conn[c].ctxDone

\* C35: when an edge handler that WaitConn gave a reverse stream has
\* returned, that stream was closed, whichever handler it is and however it
\* returned, so that the WaitClose on the stream can return
C35_StreamClosedOnReturn ==
    \A h \in Handlers :
        (hnd[h].pc = "done" /\ hnd[h].rc = "ok" /\ req[h].state = "resolved") =>
            /\ notifier[req[h].stream].closes > 0
            /\ WaitCloseReturns(req[h].stream, FALSE)

\* ------------------------------------------ requests and foreign clients
\* the V2 control connection of a client of some key and kind is registered;
\* the connections accepted from then on authenticate with any of Tokens
IsolationInit ==
    /\ AuthInit
    /\ EdgeInit
    /\ \E t \in KeyIDs \X Kinds : Registered(t)

IsolationNext ==
    \/ \E h \in 1..MaxCalls :
          \/ RequestTunnel(h)
          \/ WaitConnOk(h)
    \/ \E c \in Conns :
          \/ Accept(c)
          \/ Authenticate(c)
          \/ ProcessRegister(c)
          \/ ProcessBind(c)
          \/ Endpoint(c)
          \/ SendEvent(c)
          \/ Register(c)
          \/ Bound(c)
    \/ \E s \in 1..MaxAccepts :
          \/ AcceptStream(s)
          \/ HandleV2Stream(s)

\* a request of one client's key while another client connects and binds
IsolationSpec == IsolationInit /\ [][IsolationNext]_vars

\* the key the reverse stream n was authenticated under: that of the bound
\* V1 connection, or of the control connection the V2 stream came through
StreamKey(n) ==
    IF n[1] = "c" THEN conn[n[2]].key ELSE conn[strm[n[2]].owner].key

\* C36: a step that resolves a pending request does it with a reverse stream
\* authenticated under the key the request was created for
C36_ResolvedUnderOwnKey ==
    [][\A r \in Handlers :
          (req[r].state = "pending" /\ req'[r].state = "resolved") =>
              StreamKey(req'[r].stream) = req[r].key]_vars

\* C37: the token Verify returns has the Type of the token SaveToken saved
\* under its ID
C37_VerifiedKindIsSavedKind ==
    (last.op = "Verify" /\ last.tok # Nil) =>
        last.tok[2] = savedType[last.tok[1]]

\* C38: a step in which the handler of one control connection invokes
\* Release(keyID) leaves no other control connection registered for that key
\* in the tcp manager
C38_ReleaseAfterLastReplica ==
    [][\A c \in Conns :
          conn'[c].releases > conn[c].releases =>
              Range(tunnels'["tcp"][conn[c].key]) \ {c} = {}]_vars

\* C39 as stated: whatever way the reverse-to-user copy ended, pipeToSource
\* returned ConnClosed
C39_AnyEndIsConnClosed ==
    \A h \in Handlers :
        (hnd[h].pc = "pipe" /\ hnd[h].src # "run") => hnd[h].src = "ConnClosed"

\* C39: a clean end of the user-to-reverse copy alone reports no error to the
\* errgroup and leaves the reverse-to-user copy running; every end of the
\* reverse-to-user copy reports an error, ConnClosed after a clean EOF, a
\* closed or a reset stream and the copy's error otherwise, so that the pipe
\* context is done and the guard can close the reverse stream; once it did,
\* the user-to-reverse copy can end whether or not the user finished sending,
\* and it does end
C39_PipeAsymmetry ==
    /\ [](\A h \in Handlers :
            hnd[h].pc = "pipe" =>
                /\ (hnd[h].dst = "nil" /\ hnd[h].src = "run") =>
                      hnd[h].egErr = "none" /\ (~hnd[h].ctxDone => ~PipeCtxDone(h))
                /\ hnd[h].src # "run" =>
                      /\ hnd[h].src = (IF hnd[h].srcEnd = "io" THEN "IOError"
                                       ELSE "ConnClosed")
                      /\ hnd[h].egErr # "none"
                      /\ PipeCtxDone(h)
                      /\ hnd[h].guard = "wait" => ENABLED Guard(h)
                      /\ hnd[h].guard = "done" => StreamClosed(h)
                      /\ (hnd[h].guard = "done" /\ hnd[h].dst = "run") =>
                            ENABLED PipeToDestEnd(h, "closed"))
    /\ \A h \in Handlers :
          (hnd[h].pc = "pipe" /\ hnd[h].src # "run") ~> (hnd[h].dst # "run")

\* the client ended the response cleanly, the guard closed the reverse
\* stream, and the user-to-reverse copy ended on the closed stream although
\* the user had not finished sending
C39_Witness ==
    \E h \in Handlers :
        /\ hnd[h].pc = "pipe"
        /\ hnd[h].srcEnd = "eof" /\ hnd[h].src = "ConnClosed"
        /\ hnd[h].guard = "done"
        /\ hnd[h].dst = "ConnClosed"
        /\ ~hnd[h].userEOF

\* ------------------------------------------------ CloseNotifier on its own
\* a task that holds the notifier of a delivered reverse stream calls Close
NotifierClose(n) ==
    /\ \E r \in Handlers : req[r].state = "resolved" /\ req[r].stream = n
    /\ notifier[n].closes < 2
    /\ notifier' = [notifier EXCEPT ![n] = Close(@)]
    /\ UNCHANGED <<tcpAllocator, conn, tunnels, req, hnd, strm, authVars, edgeVars>>

NotifierNext ==
    \/ \E n \in StreamIDs : NotifierClose(n)
    \/ \E h \in Handlers :
          \/ RequestCtxCancel(h)
          \/ WriteMeta(h)
          \/ WriteInitial(h)
          \/ Guard(h)
    \/ \E c \in Conns :
          \/ CtxCancel(c)
          \/ WaitClose(c)
    \/ \E s \in Streams : WaitCloseStream(s)

\* the notifier of a delivered reverse stream, closed by its holders
NotifierSpec == PipeInit /\ [][NotifierNext]_vars

\* C40: no call of Close panics, and a closed notifier stays closed
C40_CloseTwiceIsSafe ==
    /\ [](\A n \in StreamIDs : ~notifier[n].panic)
    /\ [][\A n \in StreamIDs : notifier[n].closes > 0 => notifier'[n].closes > 0]_vars
====
